---- MODULE Spec2Model ----
(***************************************************************************)
(* A model of the state core of plasma-core: the RangeStore interval       *)
(* container, the SnapshotManager, the ProofService, the ChainService head *)
(* state persistence, the ChainDB latest-block record, the EventWatcher    *)
(* polling loop and the SyncService retry list.                            *)
(*                                                                         *)
(* Every subsystem has its own specification (SpecRangeStore, ...) over    *)
(* its own variables; the variables of the other subsystems stay at their  *)
(* initial values.                                                         *)
(***************************************************************************)
EXTENDS Integers, Sequences, FiniteSets, TLC

VARIABLES
    ranges,        \* RangeStore.ranges: the sequence of stored entries
    applied,       \* history: per coin, the highest block ever passed to addRange
    rsLast,        \* history: what the last addRange call did
    rsOps,         \* number of addRange calls so far
    snapshots,     \* SnapshotManager.snapshots of the head manager
    smLast,        \* history: the last public SnapshotManager operation
    smOps,         \* number of public SnapshotManager operations so far
    proofTx,       \* ProofService.applyProof: the argument tx
    proofArg,      \* ProofService.applyProof: the argument proof
    proofResult,   \* ProofService.applyProof: what the call returned or threw
    proofCalls,    \* number of applyProof calls so far
    dbState,       \* ChainDB: the value of state:latest
    dbTxs,         \* ChainDB: the transactions stored by setTransaction
    dbExited,      \* ChainDB: the ranges marked exited
    dbExitable,    \* ChainDB: the exitable ends
    lockHolder,    \* ChainService.lock: the caller holding 'state', 0 if none
    inflight,      \* writes of state:latest started and not yet completed
    procs,         \* the callers of ChainService: position and locals
    latestblock,   \* ChainDB: the value of latestblock
    headers,       \* ChainDB: header:n for every block n, "null" when there is none
    maxAdded,      \* history: the greatest block passed to addBlockHeader(s)
    headerWrites,  \* the header writes of the calls that wrote latestblock
    headerOps,     \* number of addBlockHeader(s) calls so far
    ewStarted,     \* EventWatcher.started
    eventEnabled,  \* EventWatcher.events[name]: "absent", "true" or "false"
    lastEmit,      \* history: the listeners of the last emitEvents loop and who was called
    watching,      \* EventWatcher.watching
    listeners,     \* number of listeners of the event, 0: not subscribed
    loops,         \* the polling loops: position and locals
    ethBlock,      \* eth.getCurrentBlock()
    lastLogged,    \* SyncDB: lastlogged of the event
    seenEvents,    \* SyncDB: the events that hasEvent knows
    delivered,     \* history: per event, the number of batches delivered
    restarts,      \* number of start() calls so far
    pending,       \* SyncService.pending
    syncFailed,    \* SyncDB: sync:failed
    lastSynced,    \* SyncDB: sync:block
    imported,      \* ChainDB: the transactions that hasTransaction knows
    round,         \* the round of checkPendingTransactions in progress
    failedOpen,    \* history: failed in a finished round, not imported since
    rounds,        \* number of rounds so far
    syncRestarts,  \* number of restarts of the process so far
    contractLog,   \* the exit events of the contract, one per Ethereum block
    xLastLogged,   \* SyncDB: lastlogged per event name
    xCheck,        \* per event name, the checkEvent call of the current poll
    xHandlers,     \* the handler calls that have not returned
    dbFinalized,   \* ChainDB: the ranges marked finalized
    dbExits,       \* ChainDB: per owner, the list exits:{owner}
    exitCalls,     \* per caller, the ChainDB.addExit call in progress
    exitsAdded,    \* history: the exits whose addExit call returned
    exitOps,       \* number of ChainDB.addExit calls so far
    head,          \* ChainDB state:latest as loaded by ChainService.loadState
    balLast,       \* the last call on the head state: arguments and result
    balOps,        \* number of calls that changed the head state so far
    proofResult2,  \* ProofService.applyProof: the result of applying the same arguments again
    appServices,   \* PlasmaApp.appServices: the names of the registered services
    dependencies,  \* BaseService.dependencies of every registered service
    appStarted,    \* the services whose started flag is true
    appPc,         \* PlasmaApp: position of start() and stop()
    appQueue,      \* the services the running loop of start() or stop() has still to visit
    appStartOrder, \* the services start() has started, in order
    appStopOrder,  \* the services stop() has stopped, in order
    appError,      \* the error start() or stop() was rejected with
    appCall,       \* the last call of startService: name, its dependencies and the started services at the call, outcome
    svcRead,       \* BaseService.services: the last read of a service from inside a service
    rpcLast,       \* JSONRPCService.handleRawRequest: the last request, the callables invoked and the response
    syncStarted,   \* SyncService.started
    syncHandlers,  \* the sets of SyncService handlers attached to the eventHandler
    emitLast,      \* the last event batch the eventHandler emitted and the calls it caused
    stState,       \* StateManager.state: the entries of its RangeStore
    stLast,        \* the last StateManager call: the state before it and the object applied
    stOps,         \* number of StateManager calls made
    exitableDb,    \* ChainDB: the entries exitable:{typed value}, as records of key and value
    geLast,        \* the last getExitableEnd call: its arguments, the entries at the call and the outcome
    geOps          \* number of addExitableEnd and getExitableEnd calls made

rsVars == <<ranges, applied, rsLast, rsOps>>

smVars == <<snapshots, smLast, smOps>>

prVars == <<proofTx, proofArg, proofResult, proofCalls>>

csVars == <<dbState, dbTxs, dbExited, dbExitable, lockHolder, inflight, procs>>

cdbVars == <<latestblock, headers, maxAdded, headerWrites, headerOps>>

ewVars ==
    <<ewStarted, watching, listeners, loops, ethBlock, lastLogged, seenEvents,
      delivered, restarts, eventEnabled, lastEmit>>

syVars ==
    <<pending, syncFailed, lastSynced, imported, round, failedOpen, rounds,
      syncRestarts>>

xeVars ==
    <<contractLog, xLastLogged, xCheck, xHandlers, dbFinalized>>

dxVars ==
    <<dbExits, exitCalls, exitsAdded, exitOps>>

balVars ==
    <<head, balLast, balOps>>

paVars ==
    <<proofResult2>>

appVars ==
    <<appServices, dependencies, appStarted, appPc, appQueue, appStartOrder, appStopOrder, appError, appCall>>

rpcVars ==
    <<svcRead, rpcLast>>

shVars ==
    <<syncStarted, syncHandlers, emitLast>>

stVars ==
    <<stState, stLast, stOps>>

geVars ==
    <<exitableDb, geLast, geOps>>

vars == <<rsVars, smVars, prVars, csVars, cdbVars, ewVars, syVars, xeVars, dxVars, balVars, paVars, appVars, rpcVars, shVars, stVars, geVars>>

\* What each subsystem leaves alone.
notRS == <<smVars, prVars, csVars, cdbVars, ewVars, syVars, xeVars, dxVars, balVars, paVars, appVars, rpcVars, shVars, stVars, geVars>>
notSM == <<rsVars, prVars, csVars, cdbVars, ewVars, syVars, xeVars, dxVars, balVars, paVars, appVars, rpcVars, shVars, stVars, geVars>>
notPR == <<rsVars, smVars, csVars, cdbVars, ewVars, syVars, xeVars, dxVars, balVars, paVars, appVars, rpcVars, shVars, stVars, geVars>>
notCS == <<rsVars, smVars, prVars, cdbVars, ewVars, syVars, xeVars, dxVars, balVars, paVars, appVars, rpcVars, shVars, stVars, geVars>>
notCDB == <<rsVars, smVars, prVars, csVars, ewVars, syVars, xeVars, dxVars, balVars, paVars, appVars, rpcVars, shVars, stVars, geVars>>
notEW == <<rsVars, smVars, prVars, csVars, cdbVars, syVars, xeVars, dxVars, balVars, paVars, appVars, rpcVars, shVars, stVars, geVars>>
notSY == <<rsVars, smVars, prVars, csVars, cdbVars, ewVars, xeVars, dxVars, balVars, paVars, appVars, rpcVars, shVars, stVars, geVars>>
notXE == <<rsVars, smVars, prVars, csVars, cdbVars, ewVars, syVars, dxVars, balVars, paVars, appVars, rpcVars, shVars, stVars, geVars>>
notDX == <<rsVars, smVars, prVars, csVars, cdbVars, ewVars, syVars, xeVars, balVars, paVars, appVars, rpcVars, shVars, stVars, geVars>>
notBAL == <<rsVars, smVars, prVars, csVars, cdbVars, ewVars, syVars, xeVars, dxVars, paVars, appVars, rpcVars, shVars, stVars, geVars>>
notPA == <<rsVars, smVars, prVars, csVars, cdbVars, ewVars, syVars, xeVars, dxVars, balVars, appVars, rpcVars, shVars, stVars, geVars>>
notAPP == <<rsVars, smVars, prVars, csVars, cdbVars, ewVars, syVars, xeVars, dxVars, balVars, paVars, rpcVars, shVars, stVars, geVars>>
notCSXE == <<rsVars, smVars, prVars, cdbVars, ewVars, syVars, dxVars, balVars, paVars, appVars, rpcVars, shVars, stVars, geVars>>
notCSDX == <<rsVars, smVars, prVars, cdbVars, ewVars, syVars, xeVars, balVars, paVars, appVars, rpcVars, shVars, stVars, geVars>>
notRPC == <<rsVars, smVars, prVars, csVars, cdbVars, ewVars, syVars, xeVars, dxVars, balVars, paVars, appVars, shVars, stVars, geVars>>
notSH == <<rsVars, smVars, prVars, csVars, cdbVars, ewVars, syVars, xeVars, dxVars, balVars, paVars, appVars, rpcVars, stVars, geVars>>
notST == <<rsVars, smVars, prVars, csVars, cdbVars, ewVars, syVars, xeVars, dxVars, balVars, paVars, appVars, rpcVars, shVars, geVars>>
notGE == <<rsVars, smVars, prVars, csVars, cdbVars, ewVars, syVars, xeVars, dxVars, balVars, paVars, appVars, rpcVars, shVars, stVars>>

----------------------------------------------------------------------------
(* Bounds of the model.                                                    *)

MaxCoin == 3
MaxBlock == 2
MaxOps == 3

Coins == 0 .. (MaxCoin - 1)
Blocks == 0 .. MaxBlock
Predicates == {"pA", "pB"}

----------------------------------------------------------------------------
(* utils.ts                                                                *)

bnMin(a, b) == IF a < b THEN a ELSE b

bnMax(a, b) == IF a > b THEN a ELSE b

----------------------------------------------------------------------------
(* RangeStore (range-store.ts).  An entry is a record                      *)
(* [start, end, block, predicate]; predicate stands for the fields of T    *)
(* beyond those of BlockRange.                                             *)

RangeOverlap(existing, range) ==
    [start |-> bnMax(existing.start, range.start),
     end   |-> bnMin(existing.end, range.end)]

\* Array.prototype.sort with the comparator a.start - b.start: a stable
\* insertion of each element behind the elements whose start is not greater.
RECURSIVE InsertByStart(_, _)
InsertByStart(sorted, r) ==
    IF sorted = <<>> THEN <<r>>
    ELSE IF sorted[Len(sorted)].start <= r.start THEN Append(sorted, r)
    ELSE Append(InsertByStart(SubSeq(sorted, 1, Len(sorted) - 1), r),
                sorted[Len(sorted)])

RECURSIVE SortFrom(_, _, _)
SortFrom(rs, i, acc) ==
    IF i > Len(rs) THEN acc ELSE SortFrom(rs, i + 1, InsertByStart(acc, rs[i]))

sortRanges(rs) == SortFrom(rs, 1, <<>>)

\* { ...existing, ...{ end } }: the copy has the own fields of `existing` and
\* none of the methods of its class (inst is the mark of a class instance).
Spread(existing) ==
    IF "inst" \in DOMAIN existing THEN [existing EXCEPT !.inst = FALSE]
    ELSE existing

RemoveStepNoRight(cur, existing, range) ==
    LET overlap == RangeOverlap(existing, range) IN
    IF overlap.start >= overlap.end THEN cur
    ELSE SelectSeq(cur, LAMBDA r : r.start # existing.start)
         \o (IF existing.start < overlap.start
             THEN <<[Spread(existing) EXCEPT !.end = overlap.start]>>
             ELSE <<>>)

\* One iteration of the loop of removeRange: `cur` is this.ranges.
RemoveStep(cur, existing, range) ==
    LET overlap == RangeOverlap(existing, range) IN
    IF overlap.start >= overlap.end THEN cur
    ELSE
        LET kept  == SelectSeq(cur, LAMBDA r : r.start # existing.start)
            left  == IF existing.start < overlap.start
                     THEN <<[Spread(existing) EXCEPT !.end = overlap.start]>>
                     ELSE <<>>
            right == IF existing.end > overlap.end
                     THEN <<[Spread(existing) EXCEPT !.start = overlap.end]>>
                     ELSE <<>>
        IN kept \o left \o right

\* The loop of removeRange runs over the array this.ranges named when the
\* loop started (`orig`); filter() makes this.ranges a new array.
RECURSIVE RemoveLoop(_, _, _, _)
RemoveLoop(orig, i, cur, range) ==
    IF i > Len(orig) THEN cur
    ELSE RemoveLoop(orig, i + 1, RemoveStep(cur, orig[i], range), range)

removeRangeNoop(rs, range) == rs

removeRange(rs, range) == sortRanges(RemoveLoop(rs, 1, rs, range))

existingWinsFlipped(existing, range) == existing.block < range.block

\* range-store.ts line 44: the existing entry keeps the overlap.
existingWins(existing, range) == existing.block > range.block

\* The loop of addRange over the array this.ranges named when the loop
\* started; st = [cur |-> this.ranges, toAdd |-> toAdd.ranges].
RECURSIVE AddLoop(_, _, _, _)
AddLoop(orig, i, st, range) ==
    IF i > Len(orig) THEN st
    ELSE
        LET existing == orig[i]
            overlap  == RangeOverlap(existing, range)
            next ==
                IF overlap.start >= overlap.end THEN st
                ELSE IF existingWins(existing, range)
                THEN [st EXCEPT !.toAdd = removeRange(st.toAdd, overlap)]
                ELSE [st EXCEPT !.cur = removeRange(st.cur, overlap)]
        IN AddLoop(orig, i + 1, next, range)

\* addRange for a valid range (start < end).
addRange(rs, range) ==
    LET st == AddLoop(rs, 1, [cur |-> rs, toAdd |-> <<range>>], range)
    IN sortRanges(st.cur \o st.toAdd)

Overlapping(a, b) == bnMax(a.start, b.start) < bnMin(a.end, b.end)

NoOverlap(rs) ==
    \A i, j \in 1 .. Len(rs) : i # j => ~Overlapping(rs[i], rs[j])

RangeInputs ==
    [start : 0 .. MaxCoin, end : 0 .. MaxCoin, block : Blocks,
     predicate : Predicates]

RSInitVars ==
    /\ ranges = <<>>
    /\ applied = [c \in Coins |-> -1]
    /\ rsLast = [kind |-> "none"]
    /\ rsOps = 0

\* addRange(range) throws 'Invalid range' and leaves the store alone.
AddRangeInvalid ==
    \E range \in RangeInputs :
        /\ rsOps < MaxOps
        /\ range.start >= range.end
        /\ rsLast' = [kind |-> "invalid"]
        /\ rsOps' = rsOps + 1
        /\ UNCHANGED <<ranges, applied>>
        /\ UNCHANGED notRS

AddRange ==
    \E range \in RangeInputs :
        /\ rsOps < MaxOps
        /\ range.start < range.end
        /\ ranges' = addRange(ranges, range)
        /\ applied' = [c \in Coins |->
                         IF range.start <= c /\ c < range.end
                         THEN bnMax(applied[c], range.block)
                         ELSE applied[c]]
        /\ rsLast' = [kind |-> "added",
                      before |-> ranges,
                      range |-> range,
                      lower |-> \E i \in 1 .. Len(ranges) :
                                   /\ Overlapping(ranges[i], range)
                                   /\ ranges[i].block > range.block,
                      higher |-> \E i \in 1 .. Len(ranges) :
                                   /\ Overlapping(ranges[i], range)
                                   /\ ranges[i].block < range.block]
        /\ rsOps' = rsOps + 1
        /\ UNCHANGED notRS

RSNext == AddRange \/ AddRangeInvalid

----------------------------------------------------------------------------
(* SnapshotManager (snapshot-manager.ts).  A Snapshot is a record          *)
(* [start, end, block, owner].  While applyTransferComponent runs, the     *)
(* snapshots it holds references to carry a field ref > 0 that names the   *)
(* object; every other object has ref = 0.                                 *)

Owners == {"A", "B"}

MaxSMOps == 3

Snap(start, end, block, owner) ==
    [start |-> start, end |-> end, block |-> block, owner |-> owner, ref |-> 0]

\* new Snapshot({...}): a new object.
NewSnapshot(s) == [s EXCEPT !.ref = 0]

\* Snapshot.valid
valid(s) == s.start < s.end /\ s.block >= 0

\* Snapshot.equals
SnapEquals(a, b) ==
    /\ a.start = b.start
    /\ a.end = b.end
    /\ a.block = b.block
    /\ a.owner = b.owner

\* Array.prototype.sort with the comparator of removeOverlapping: by start,
\* then by end; stable.
RECURSIVE InsertByStartEnd(_, _)
InsertByStartEnd(sorted, r) ==
    IF sorted = <<>> THEN <<r>>
    ELSE
        LET last == sorted[Len(sorted)] IN
        IF last.start < r.start \/ (last.start = r.start /\ last.end <= r.end)
        THEN Append(sorted, r)
        ELSE Append(InsertByStartEnd(SubSeq(sorted, 1, Len(sorted) - 1), r), last)

RECURSIVE SortStartEndFrom(_, _, _)
SortStartEndFrom(rs, i, acc) ==
    IF i > Len(rs) THEN acc
    ELSE SortStartEndFrom(rs, i + 1, InsertByStartEnd(acc, rs[i]))

\* The inner loop of removeOverlapping over `overlapping`, for one snapshotA.
\* st = [reduced, a, remainder].
RECURSIVE OverlapInner(_, _, _)
OverlapInner(overlapping, j, st) ==
    IF j > Len(overlapping) THEN st
    ELSE
        LET b == overlapping[j]
            a == st.a
            reduced1 ==
                IF a.block >= b.block
                THEN
                    SelectSeq(st.reduced, LAMBDA el : ~SnapEquals(el, b))
                    \o (IF b.start < a.start
                        THEN <<NewSnapshot([b EXCEPT !.end = a.start])>>
                        ELSE <<>>)
                    \o (IF b.end > a.end
                        THEN <<NewSnapshot([b EXCEPT !.start = a.end])>>
                        ELSE <<>>)
                    \o <<NewSnapshot([a EXCEPT !.end = bnMin(a.end, b.end)])>>
                ELSE st.reduced
        IN
        IF a.end > b.end
        THEN OverlapInner(overlapping, j + 1,
                 [reduced |-> reduced1,
                  a |-> NewSnapshot([a EXCEPT !.start = b.end]),
                  remainder |-> TRUE])
        ELSE [reduced |-> reduced1, a |-> a, remainder |-> FALSE]

RECURSIVE OverlapOuter(_, _, _)
OverlapOuter(sorted, i, reduced) ==
    IF i > Len(sorted) THEN reduced
    ELSE
        LET a == sorted[i]
            overlapping == SelectSeq(reduced, LAMBDA b : a.start < b.end)
            st == OverlapInner(overlapping, 1,
                      [reduced |-> reduced, a |-> a, remainder |-> TRUE])
        IN OverlapOuter(sorted, i + 1,
               IF st.remainder THEN Append(st.reduced, st.a) ELSE st.reduced)

removeOverlapping(snaps) == OverlapOuter(SortStartEndFrom(snaps, 1, <<>>), 1, <<>>)

\* The index that merged.forEach leaves in `left` (which = "left") or in
\* `right`: the last matching element, 0 for undefined.
RECURSIVE MergeIndex(_, _, _, _, _)
MergeIndex(merged, i, snapshot, which, found) ==
    IF i > Len(merged) THEN found
    ELSE
        LET s == merged[i]
            same == s.block = snapshot.block /\ s.owner = snapshot.owner
            hit == /\ same
                   /\ IF which = "left" THEN s.end = snapshot.start
                      ELSE s.start = snapshot.end
        IN MergeIndex(merged, i + 1, snapshot, which, IF hit THEN i ELSE found)

RECURSIVE MergeLoop(_, _, _)
MergeLoop(snaps, i, merged) ==
    IF i > Len(snaps) THEN merged
    ELSE
        LET snapshot == snaps[i]
            left  == MergeIndex(merged, 1, snapshot, "left", 0)
            right == MergeIndex(merged, 1, snapshot, "right", 0)
            m1 == IF left # 0
                  THEN [merged EXCEPT ![left].end = snapshot.end]
                  ELSE merged
            m2 == IF right # 0
                  THEN [m1 EXCEPT ![right].start = snapshot.start]
                  ELSE m1
            m3 == IF left = 0 /\ right = 0 THEN Append(m2, snapshot) ELSE m2
        IN MergeLoop(snaps, i + 1, m3)

mergeSnapshots(snaps) == MergeLoop(snaps, 1, <<>>)

\* addSnapshot for a valid snapshot: push, sort by start, removeOverlapping,
\* mergeSnapshots.
addSnapshot(snaps, snapshot) ==
    mergeSnapshots(removeOverlapping(sortRanges(Append(snaps, snapshot))))

\* addSnapshot as called: an invalid snapshot throws.
TryAddSnapshot(snaps, snapshot) ==
    IF valid(snapshot)
    THEN [snaps |-> addSnapshot(snaps, snapshot), threw |-> FALSE]
    ELSE [snaps |-> snaps, threw |-> TRUE]

removeSnapshot(snaps, snapshot) ==
    SelectSeq(snaps, LAMBDA existing : ~SnapEquals(existing, snapshot))

\* merge(other): addSnapshot of every snapshot of other.state, a throw of
\* one of them swallowed.
RECURSIVE MergeManagers(_, _, _)
MergeManagers(snaps, other, i) ==
    IF i > Len(other) THEN snaps
    ELSE MergeManagers(TryAddSnapshot(snaps, NewSnapshot(other[i])).snaps,
                       other, i + 1)

\* validStateTransition(snapshot, transfer)
validStateTransition(snapshot, component) ==
    /\ component.implicit \/ snapshot.owner = component.sender
    /\ snapshot.block + 1 = component.block

\* getTransferComponents: left implicit, right implicit, explicit.
getTransferComponents(t) ==
    LET comp(s, e, imp) ==
            [start |-> s, end |-> e, block |-> t.block, sender |-> t.sender,
             recipient |-> t.recipient, implicit |-> imp]
    IN (IF t.start # t.implicitStart
        THEN <<comp(t.implicitStart, t.start, TRUE)>> ELSE <<>>)
       \o (IF t.end # t.implicitEnd
           THEN <<comp(t.end, t.implicitEnd, TRUE)>> ELSE <<>>)
       \o <<comp(t.start, t.end, FALSE)>>

\* The value now held by the object that overlapping[j] refers to: the
\* object is still in the list (and mergeSnapshots may have changed it in
\* place), or it left the list with the value `old`.
Deref(snaps, j, old) ==
    IF \E k \in 1 .. Len(snaps) : snaps[k].ref = j
    THEN snaps[CHOOSE k \in 1 .. Len(snaps) : snaps[k].ref = j]
    ELSE old

\* The loop of applyTransferComponent over `overlapping`.
RECURSIVE ComponentLoop(_, _, _, _)
ComponentLoop(snaps, overlapping, j, component) ==
    IF j > Len(overlapping) THEN snaps
    ELSE
        LET snapshot == Deref(snaps, j, overlapping[j]) IN
        IF ~validStateTransition(snapshot, component)
        THEN ComponentLoop(snaps,
                 [overlapping EXCEPT ![j] = snapshot], j + 1, component)
        ELSE
            LET s0 == removeSnapshot(snaps, snapshot)
                s1 == IF snapshot.start < component.start
                      THEN TryAddSnapshot(s0,
                               NewSnapshot([snapshot EXCEPT !.end = component.start])).snaps
                      ELSE s0
                s2 == IF snapshot.end > component.end
                      THEN TryAddSnapshot(s1,
                               NewSnapshot([snapshot EXCEPT !.start = component.end])).snaps
                      ELSE s1
                s3 == TryAddSnapshot(s2,
                          Snap(bnMax(snapshot.start, component.start),
                               bnMin(snapshot.end, component.end),
                               component.block,
                               IF component.implicit THEN snapshot.owner
                               ELSE component.recipient))
            IN ComponentLoop(s3.snaps, overlapping, j + 1, component)

applyTransferComponent(snaps, component) ==
    LET idx == SelectSeq([k \in 1 .. Len(snaps) |-> k],
                   LAMBDA k : bnMax(snaps[k].start, component.start)
                                < bnMin(snaps[k].end, component.end))
        refOf(k) == IF \E j \in 1 .. Len(idx) : idx[j] = k
                    THEN CHOOSE j \in 1 .. Len(idx) : idx[j] = k
                    ELSE 0
        tagged == [k \in 1 .. Len(snaps) |-> [snaps[k] EXCEPT !.ref = refOf(k)]]
        overlapping == [j \in 1 .. Len(idx) |-> tagged[idx[j]]]
        result == ComponentLoop(tagged, overlapping, 1, component)
    IN [k \in 1 .. Len(result) |-> NewSnapshot(result[k])]

RECURSIVE ApplyComponents(_, _, _)
ApplyComponents(snaps, components, i) ==
    IF i > Len(components) THEN snaps
    ELSE ApplyComponents(applyTransferComponent(snaps, components[i]),
                         components, i + 1)

applyTransfer(snaps, transfer) ==
    ApplyComponents(snaps, getTransferComponents(transfer), 1)

SnapshotInputs ==
    { Snap(s, e, b, o) : s \in 0 .. MaxCoin, e \in 0 .. MaxCoin,
                         b \in Blocks, o \in Owners }

TransferInputs ==
    { t \in [start : 0 .. MaxCoin, end : 0 .. MaxCoin,
             implicitStart : 0 .. MaxCoin, implicitEnd : 0 .. MaxCoin,
             block : Blocks, sender : Owners, recipient : Owners] :
        t.implicitStart <= t.start /\ t.start < t.end /\ t.end <= t.implicitEnd }

\* The states of another manager that merge is given: what one or two
\* deposits leave in an empty manager.
OtherStates ==
    { addSnapshot(<<>>, a) : a \in { x \in SnapshotInputs : valid(x) } }
    \cup
    { addSnapshot(addSnapshot(<<>>, a), b) :
        a \in { x \in SnapshotInputs : valid(x) },
        b \in { x \in SnapshotInputs : valid(x) } }

SMInitVars ==
    /\ snapshots = <<>>
    /\ smLast = [kind |-> "none"]
    /\ smOps = 0

\* applyDeposit(deposit) and applyExit(exit): Snapshot.from, then addSnapshot.
SMApply(kind, s) ==
    /\ smOps < MaxSMOps
    /\ LET r == TryAddSnapshot(snapshots, s) IN
        /\ snapshots' = r.snaps
        /\ smLast' = [kind |-> kind, threw |-> r.threw]
    /\ smOps' = smOps + 1
    /\ UNCHANGED notSM

ApplyDeposit == \E s \in SnapshotInputs : SMApply("deposit", s)

ApplyExit == \E s \in SnapshotInputs : SMApply("exit", s)

\* applySentTransaction: Snapshot.from is given a plain object and throws
\* 'Cannot cast to Snapshot.' before any snapshot is added; without transfers
\* nothing is added either.
ApplySentTransaction ==
    /\ smOps < MaxSMOps
    /\ \E n \in 0 .. 1 : smLast' = [kind |-> "sent", threw |-> (n > 0)]
    /\ smOps' = smOps + 1
    /\ UNCHANGED snapshots
    /\ UNCHANGED notSM

ApplyTransfer ==
    \E t \in TransferInputs :
        /\ smOps < MaxSMOps
        /\ snapshots' = applyTransfer(snapshots, t)
        /\ smLast' = [kind |-> "transfer", threw |-> FALSE]
        /\ smOps' = smOps + 1
        /\ UNCHANGED notSM

Merge ==
    \E other \in OtherStates :
        /\ smOps < MaxSMOps
        /\ snapshots' = MergeManagers(snapshots, other, 1)
        /\ smLast' = [kind |-> "merge", threw |-> FALSE]
        /\ smOps' = smOps + 1
        /\ UNCHANGED notSM

SMNext ==
    \/ ApplyDeposit
    \/ ApplyExit
    \/ ApplySentTransaction
    \/ ApplyTransfer
    \/ Merge

----------------------------------------------------------------------------
(* StateObject (state-object.ts) and StateManager (state-manager.ts).  A   *)
(* StateObject is a record [start, end, block, predicate, state, implicit, *)
(* implicitStart, implicitEnd, inst]; an optional field that is undefined  *)
(* holds Undefined (FALSE for the flag implicit).                          *)

Undefined == -1

\* new StateObject(args): the constructor copies the five core fields only.
NewStateObject(args) ==
    [start |-> args.start, end |-> args.end, block |-> args.block,
     predicate |-> args.predicate, state |-> args.state,
     implicit |-> FALSE, implicitStart |-> Undefined,
     implicitEnd |-> Undefined, inst |-> TRUE]

StateObjectEquals(a, b) ==
    /\ a.start = b.start
    /\ a.end = b.end
    /\ a.block = b.block
    /\ a.predicate = b.predicate
    /\ a.state = b.state

components(s) ==
    IF s.implicitStart = Undefined \/ s.implicitEnd = Undefined THEN <<s>>
    ELSE
        LET left == IF s.start # s.implicitStart
                    THEN <<NewStateObject([s EXCEPT !.end = s.start,
                                             !.start = s.implicitStart,
                                             !.implicit = TRUE])>>
                    ELSE <<>>
            right == IF s.end # s.implicitEnd
                     THEN <<NewStateObject([s EXCEPT !.end = s.implicitEnd,
                                              !.start = s.end,
                                              !.implicit = TRUE])>>
                     ELSE <<>>
            explicit == IF s.start < s.end
                        THEN <<NewStateObject(s)>>
                        ELSE <<>>
        IN left \o right \o explicit

\* RangeStore.getOverlapping: the entries whose [start, end) intersects range.
getOverlapping(rs, range) ==
    SelectSeq(rs, LAMBDA e : Overlapping(e, range))

\* RangeStore.incrementBlocks: every entry fully inside range whose block is
\* range.block - 1 has its block advanced by one.
incrementBlocks(rs, range) ==
    [i \in 1 .. Len(rs) |->
        IF /\ range.start <= rs[i].start
           /\ rs[i].end <= range.end
           /\ rs[i].block = range.block - 1
        THEN [rs[i] EXCEPT !.block = @ + 1]
        ELSE rs[i]]

getOldStates(rs, stateObject) == getOverlapping(rs, stateObject)

\* overlap.some(existing => existing.equals(stateObject)): "true", "false",
\* or "TypeError" when the entry reached has no method equals.
RECURSIVE SomeEquals(_, _, _)
SomeEquals(overlap, i, stateObject) ==
    IF i > Len(overlap) THEN "false"
    ELSE IF ~overlap[i].inst THEN "TypeError"
    ELSE IF StateObjectEquals(overlap[i], stateObject) THEN "true"
    ELSE SomeEquals(overlap, i + 1, stateObject)

hasStateObject(rs, stateObject) ==
    SomeEquals(getOldStates(rs, stateObject), 1, stateObject)

addStateObject(rs, stateObject) == addRange(rs, stateObject)

RECURSIVE ApplyComponentLoop(_, _, _)
ApplyComponentLoop(rs, comps, i) ==
    IF i > Len(comps) THEN rs
    ELSE ApplyComponentLoop(
             IF comps[i].implicit THEN incrementBlocks(rs, comps[i])
             ELSE addRange(rs, comps[i]),
             comps, i + 1)

applyStateObject(rs, stateObject) ==
    ApplyComponentLoop(rs, components(stateObject), 1)

----------------------------------------------------------------------------
(* ProofService.applyProof.  A proof is [deposits, transactions, fault];   *)
(* a Transaction is [block, witness, newState, bounds], bounds being what  *)
(* getImplicitBounds derives from its inclusion proof.  fault names the    *)
(* answer of the services the call reads: which deposit depositValid       *)
(* rejects, which transaction has no block header or a wrong inclusion     *)
(* proof.                                                                  *)

MaxProofDeposits == 2
MaxProofTxs == 2
MaxProofCalls == 1
ProofCoin == 2

NoFault == [kind |-> "none", at |-> 0]

depositValidAlways(proof, i) == TRUE

\* eth.contract.depositValid(deposit) for the deposit at index i.
depositValid(proof, i) ==
    ~(proof.fault.kind = "deposit" /\ proof.fault.at = i)

\* checkInclusionProof(transaction) for the transaction at index i:
\* "noblock" when getBlockHeader returns null.
checkInclusionProof(proof, i) ==
    IF proof.fault.at = i /\ proof.fault.kind = "noblock" THEN "noblock"
    ELSE IF proof.fault.at = i /\ proof.fault.kind = "inclusion" THEN "invalid"
    ELSE "valid"

setImplicitBounds(transaction) ==
    [transaction.newState EXCEPT
        !.implicitStart = transaction.bounds.implicitStart,
        !.implicitEnd = transaction.bounds.implicitEnd]

\* The predicate evaluator of plasma-verifier, for the ownership predicate:
\* the witness is the owner recorded in the old state.
validStateTransition2(oldState, newState, witness) ==
    witness = oldState.state

\* The loop over oldStates: "valid", "invalid", or "TypeError" when the old
\* state reached has no method encode.
RECURSIVE CheckOldStates(_, _, _, _)
CheckOldStates(oldStates, i, newState, witness) ==
    IF i > Len(oldStates) THEN "valid"
    ELSE IF ~oldStates[i].inst THEN "TypeError"
    ELSE IF ~validStateTransition2(oldStates[i], newState, witness)
    THEN "invalid"
    ELSE CheckOldStates(oldStates, i + 1, newState, witness)

RECURSIVE ApplyTransactions(_, _, _)
ApplyTransactions(rs, transactions, i) ==
    IF i > Len(transactions) THEN [error |-> "none", state |-> rs]
    ELSE
        LET newState == setImplicitBounds(transactions[i])
            oldStates == getOldStates(rs, newState)
            check == CheckOldStates(oldStates, 1, newState,
                                    transactions[i].witness)
        IN IF check = "TypeError" THEN [error |-> "TypeError", state |-> rs]
           ELSE ApplyTransactions(
                    IF check = "valid" THEN applyStateObject(rs, newState)
                    ELSE rs,
                    transactions, i + 1)

RECURSIVE AddDeposits(_, _, _)
AddDeposits(rs, deposits, i) ==
    IF i > Len(deposits) THEN rs
    ELSE AddDeposits(addStateObject(rs, deposits[i]), deposits, i + 1)

RECURSIVE FirstInclusionError(_, _)
FirstInclusionError(proof, i) ==
    IF i > Len(proof.transactions) THEN "none"
    ELSE IF checkInclusionProof(proof, i) = "noblock"
    THEN "Received transaction for non-existent block"
    ELSE IF checkInclusionProof(proof, i) = "invalid"
    THEN "Invalid transaction"
    ELSE FirstInclusionError(proof, i + 1)

\* applyProof(tx, proof): error is the message of the error thrown ("none"
\* when the call returns), state the StateManager built so far.
applyProof(tx, proof) ==
    IF \E i \in 1 .. Len(proof.deposits) : ~depositValid(proof, i)
    THEN [error |-> "Invalid deposit", state |-> <<>>]
    ELSE IF FirstInclusionError(proof, 1) # "none"
    THEN [error |-> FirstInclusionError(proof, 1), state |-> <<>>]
    ELSE
        LET applied0 == ApplyTransactions(
                            AddDeposits(<<>>, proof.deposits, 1),
                            proof.transactions, 1)
            has == hasStateObject(applied0.state, tx.newState)
        IN IF applied0.error # "none" THEN applied0
           ELSE IF has = "TypeError"
           THEN [error |-> "TypeError", state |-> applied0.state]
           ELSE IF has = "false"
           THEN [error |-> "Invalid state transition",
                 state |-> applied0.state]
           ELSE [error |-> "none", state |-> applied0.state]

ProofRanges ==
    {r \in [start : 0 .. ProofCoin, end : 0 .. ProofCoin] : r.start < r.end}

DepositInputs ==
    {NewStateObject([start |-> 0, end |-> e, block |-> 0,
                     predicate |-> "pA", state |-> "A"]) :
         e \in {1, MaxCoin}}

ProofStateObjects ==
    {NewStateObject([start |-> r.start, end |-> r.end, block |-> b,
                     predicate |-> "pA", state |-> o]) :
         r \in ProofRanges, b \in 1 .. MaxBlock, o \in Owners}

ProofTransactions ==
    {[block |-> s.block, witness |-> w, newState |-> s,
      bounds |-> [implicitStart |-> IF wide THEN 0 ELSE s.start,
                  implicitEnd |-> IF wide THEN MaxCoin ELSE s.end]] :
         s \in ProofStateObjects, w \in Owners, wide \in BOOLEAN}

SeqUpTo(S, n) == UNION {[1 .. k -> S] : k \in 0 .. n}

Faults(deposits, transactions) ==
    {NoFault}
    \cup {[kind |-> "deposit", at |-> i] : i \in 1 .. Len(deposits)}
    \cup {[kind |-> k, at |-> i] :
             k \in {"noblock", "inclusion"}, i \in 1 .. Len(transactions)}

\* The transaction a proof is presented for: its last transaction, or one
\* that the proof does not hold.
ForeignTx ==
    [block |-> MaxBlock, witness |-> "A",
     newState |-> NewStateObject([start |-> 0, end |-> 1, block |-> 0,
                                  predicate |-> "pA", state |-> "A"]),
     bounds |-> [implicitStart |-> 0, implicitEnd |-> 1]]

TargetsOf(transactions) ==
    {ForeignTx} \cup
    (IF transactions = <<>> THEN {}
     ELSE {transactions[Len(transactions)]})

PRInitVars ==
    /\ proofTx = ForeignTx
    /\ proofArg = [deposits |-> <<>>, transactions |-> <<>>, fault |-> NoFault]
    /\ proofResult = [error |-> "idle", state |-> <<>>]
    /\ proofCalls = 0

ApplyProof ==
    /\ proofCalls < MaxProofCalls
    /\ \E deposits \in SeqUpTo(DepositInputs, MaxProofDeposits) :
       \E transactions \in SeqUpTo(ProofTransactions, MaxProofTxs) :
       \E fault \in Faults(deposits, transactions) :
       \E tx \in TargetsOf(transactions) :
        /\ proofTx' = tx
        /\ proofArg' = [deposits |-> deposits, transactions |-> transactions,
                        fault |-> fault]
        /\ proofResult' = applyProof(tx, proofArg')
        /\ proofCalls' = proofCalls + 1
        /\ UNCHANGED notPR

PRNext == ApplyProof

----------------------------------------------------------------------------
(* ChainService: addDeposits, addExit and addTransaction run by concurrent *)
(* callers over one ChainDB.  A step of a caller is the code between two   *)
(* awaits.  A write that the caller awaits is in the database when the     *)
(* caller resumes; the write of saveState that addTransaction starts and   *)
(* does not await is in flight until the provider completes it.            *)

NumProcs == 2

Procs == 1 .. NumProcs

\* Snapshot.from(deposit), Snapshot.from(exit), and a state object of a
\* verified post-state as the snapshot that merge adds to the head state.
AsSnapshot(o) == Snap(o.start, o.end, o.block, o.state)

ChainDeposits == {Snap(0, 2, 0, "A"), Snap(1, MaxCoin, 0, "B"), Snap(1, 1, 0, "A")}

ChainExits == {Snap(0, 1, 1, "A"), Snap(0, 2, 1, "A"), Snap(2, 2, 1, "B")}

\* addTransaction is given a transaction and a proof that ends with it.
ChainProofs ==
    {[tx |-> t, proof |-> [deposits |-> d, transactions |-> <<t>>, fault |-> f]] :
        t \in {x \in ProofTransactions :
                  /\ x.newState.block = 1 /\ x.witness = "A"
                  /\ x.newState.state = "B" /\ x.newState.end - x.newState.start = 1
                  /\ x.bounds.implicitStart = x.newState.start
                  /\ x.bounds.implicitEnd = x.newState.end},
        d \in SeqUpTo(DepositInputs, MaxProofDeposits),
        f \in {NoFault, [kind |-> "deposit", at |-> 1],
               [kind |-> "deposit", at |-> MaxProofDeposits]}}

\* wrote and recorded are history: the call has started a write of
\* state:latest, the call has stored its transaction.  An addDeposits call
\* also keeps its argument (input) and the ranges that were marked exited
\* when it was made (exitedAtCall).
IdleProc ==
    [pc |-> "idle", kind |-> "none", outcome |-> "none", wrote |-> FALSE,
     recorded |-> FALSE, value |-> <<>>]

CSInitVars ==
    /\ dbState = <<>>
    /\ dbTxs = {}
    /\ dbExited = {}
    /\ dbExitable = {}
    /\ lockHolder = 0
    /\ inflight = {}
    /\ procs = [p \in Procs |-> IdleProc]

\* The loop of applyDeposit calls in addDeposits: the first invalid deposit
\* throws out of the loop.
RECURSIVE ApplyDeposits(_, _, _)
ApplyDeposits(snaps, deposits, i) ==
    IF i > Len(deposits) THEN [snaps |-> snaps, threw |-> FALSE]
    ELSE LET r == TryAddSnapshot(snaps, deposits[i]) IN
         IF r.threw THEN r ELSE ApplyDeposits(r.snaps, deposits, i + 1)

\* checkExited that finds no range marked.
checkExitedNever(range) == FALSE

checkExited(range) == <<range.start, range.end>> \in dbExited

\* addDeposits(deposits) up to lock.acquire: the exited deposits are dropped.
AddDepositsBegin(p) ==
    \E deposits \in SeqUpTo(ChainDeposits, MaxProofDeposits) :
        /\ procs[p].pc = "idle"
        /\ procs' = [procs EXCEPT ![p] =
             [IdleProc EXCEPT !.pc = "lock", !.kind = "deposits"] @@
             [deposits |-> SelectSeq(deposits, LAMBDA d : ~checkExited(d)),
              input |-> deposits, exitedAtCall |-> dbExited]]
        /\ UNCHANGED <<dbState, dbTxs, dbExited, dbExitable, lockHolder, inflight>>

\* addExit(exit) up to lock.acquire: chaindb.addExit has marked the range.
AddExitBegin(p) ==
    \E exit \in ChainExits :
        /\ procs[p].pc = "idle"
        /\ dbExited' = dbExited \cup {<<exit.start, exit.end>>}
        /\ procs' = [procs EXCEPT ![p] =
             [IdleProc EXCEPT !.pc = "lock", !.kind = "exit"] @@
             [exit |-> exit]]
        /\ UNCHANGED <<dbState, dbTxs, dbExitable, lockHolder, inflight>>

\* addTransaction(tx, proof) up to lock.acquire: applyProof returns the
\* post-state or throws, and the throw is rethrown to the caller.
AddTransactionBegin(p) ==
    \E input \in ChainProofs :
        /\ procs[p].pc = "idle"
        /\ LET r == applyProof(input.tx, input.proof) IN
           procs' = [procs EXCEPT ![p] =
             IF r.error = "none"
             THEN [IdleProc EXCEPT !.pc = "lock", !.kind = "tx"] @@
                  [tx |-> input.tx, proof |-> input.proof,
                   temp |-> [i \in 1 .. Len(r.state) |-> AsSnapshot(r.state[i])]]
             ELSE [IdleProc EXCEPT !.pc = "done", !.kind = "tx",
                                   !.outcome = r.error] @@
                  [tx |-> input.tx, proof |-> input.proof, temp |-> <<>>]]
        /\ UNCHANGED <<dbState, dbTxs, dbExited, dbExitable, lockHolder, inflight>>

\* lock.acquire('state', ...) runs the callback when no other holds the key.
Acquire(p) ==
    /\ procs[p].pc = "lock"
    /\ lockHolder = 0
    /\ lockHolder' = p
    /\ procs' = [procs EXCEPT ![p].pc = "load"]
    /\ UNCHANGED <<dbState, dbTxs, dbExited, dbExitable, inflight>>

\* addDeposits and addExit after loadState: the mutation, then the call of
\* saveState that is awaited; a throw of the mutation leaves the callback.
LoadAndApply(p) ==
    /\ procs[p].pc = "load"
    /\ procs[p].kind \in {"deposits", "exit"}
    /\ LET r == IF procs[p].kind = "deposits"
                THEN ApplyDeposits(dbState, procs[p].deposits, 1)
                ELSE TryAddSnapshot(dbState, procs[p].exit)
       IN IF r.threw
          THEN /\ procs' = [procs EXCEPT ![p].pc = "done",
                                         ![p].outcome = "Invalid snapshot"]
               /\ lockHolder' = 0
          ELSE /\ procs' = [procs EXCEPT ![p].pc = "save",
                                         ![p].value = r.snaps,
                                         ![p].wrote = TRUE]
               /\ UNCHANGED lockHolder
    /\ UNCHANGED <<dbState, dbTxs, dbExited, dbExitable, inflight>>

\* The awaited saveState has written state:latest; the callback returns.
Save(p) ==
    /\ procs[p].pc = "save"
    /\ dbState' = procs[p].value
    /\ lockHolder' = 0
    /\ procs' = [procs EXCEPT
                   ![p].pc = IF procs[p].kind = "deposits" THEN "ends" ELSE "done",
                   ![p].outcome = IF procs[p].kind = "deposits" THEN "none" ELSE "ok"]
    /\ UNCHANGED <<dbTxs, dbExited, dbExitable, inflight>>

AddExitableEnds(p) ==
    /\ procs[p].pc = "ends"
    /\ dbExitable' = dbExitable \cup
           {procs[p].deposits[i].end : i \in 1 .. Len(procs[p].deposits)}
    /\ procs' = [procs EXCEPT ![p].pc = "done", ![p].outcome = "ok"]
    /\ UNCHANGED <<dbState, dbTxs, dbExited, lockHolder, inflight>>

\* this.saveState(stateManager) without await: the write of state:latest is
\* started and the callback returns.
saveState(value) ==
    /\ inflight' = inflight \cup {value}
    /\ UNCHANGED dbState

\* addTransaction after loadState: merge, saveState, release of the lock.
MergeAndSave(p) ==
    /\ procs[p].pc = "load"
    /\ procs[p].kind = "tx"
    /\ saveState(MergeManagers(dbState, procs[p].temp, 1))
    /\ lockHolder' = 0
    /\ procs' = [procs EXCEPT ![p].pc = "settx", ![p].wrote = TRUE,
                   ![p].value = MergeManagers(dbState, procs[p].temp, 1)]
    /\ UNCHANGED <<dbTxs, dbExited, dbExitable>>

\* The provider completes a write of state:latest that nobody awaits.
WriteLands ==
    \E value \in inflight :
        /\ dbState' = value
        /\ inflight' = inflight \ {value}
        /\ UNCHANGED <<dbTxs, dbExited, dbExitable, lockHolder, procs>>

SetTransaction(p) ==
    /\ procs[p].pc = "settx"
    /\ dbTxs' = dbTxs \cup {procs[p].tx}
    /\ procs' = [procs EXCEPT ![p].pc = "done", ![p].outcome = "ok",
                               ![p].recorded = TRUE]
    /\ UNCHANGED <<dbState, dbExited, dbExitable, lockHolder, inflight>>

CSNext ==
    \/ \E p \in Procs : AddDepositsBegin(p) /\ UNCHANGED notCS
    \/ \E p \in Procs : AddExitBegin(p) /\ UNCHANGED notCS
    \/ \E p \in Procs : AddTransactionBegin(p) /\ UNCHANGED notCS
    \/ \E p \in Procs : Acquire(p) /\ UNCHANGED notCS
    \/ \E p \in Procs : LoadAndApply(p) /\ UNCHANGED notCS
    \/ \E p \in Procs : Save(p) /\ UNCHANGED notCS
    \/ \E p \in Procs : AddExitableEnds(p) /\ UNCHANGED notCS
    \/ \E p \in Procs : MergeAndSave(p) /\ UNCHANGED notCS
    \/ \E p \in Procs : SetTransaction(p) /\ UNCHANGED notCS
    \/ WriteLands /\ UNCHANGED notCS

----------------------------------------------------------------------------
(* ChainDB: the latest block and the block headers (chain-db.ts).  A call  *)
(* of addBlockHeader(s) writes latestblock, then the headers.              *)

MaxHeaderBlock == 3
MaxHeaderOps == 3

HeaderBlocks == 0 .. MaxHeaderBlock

Hashes == {"h1", "h2"}

\* A batch of Block objects: a hash for each of its block numbers.
BlockBatches(blocks) == [blocks -> Hashes]

CDBInitVars ==
    /\ latestblock = -1
    /\ headers = [n \in HeaderBlocks |-> "null"]
    /\ maxAdded = -1
    /\ headerWrites = {}
    /\ headerOps = 0

\* setLatestBlock(block): db.set('latestblock', block).
setLatestBlock(block) == latestblock' = block

SetMax(S) == CHOOSE b \in S : \A c \in S : c <= b

\* addBlockHeader(block, hash) up to its second await.
AddBlockHeader ==
    \E block \in HeaderBlocks, hash \in Hashes :
        /\ headerOps < MaxHeaderOps
        /\ setLatestBlock(block)
        /\ maxAdded' = bnMax(maxAdded, block)
        /\ headerWrites' = headerWrites \cup {[n \in {block} |-> hash]}
        /\ headerOps' = headerOps + 1
        /\ UNCHANGED headers

\* addBlockHeaders(blocks) up to its second await: latest is the block of
\* the batch with the greatest number.
addBlockHeaders(batch) ==
    /\ headerOps < MaxHeaderOps
    /\ setLatestBlock(SetMax(DOMAIN batch))
    /\ maxAdded' = bnMax(maxAdded, SetMax(DOMAIN batch))
    /\ headerWrites' = headerWrites \cup {batch}
    /\ headerOps' = headerOps + 1
    /\ UNCHANGED headers

AddBlockHeaders ==
    \E blocks \in (SUBSET HeaderBlocks) \ {{}} :
        \E batch \in BlockBatches(blocks) : addBlockHeaders(batch)

\* addBlockHeaders([]): reduce of an empty array throws.
AddBlockHeadersEmpty ==
    /\ headerOps < MaxHeaderOps
    /\ headerOps' = headerOps + 1
    /\ UNCHANGED <<latestblock, headers, maxAdded, headerWrites>>

\* db.set of header:n and db.bulkPut(objects): the values are stored under
\* their keys, whatever was stored there.
put(stored, objects) ==
    [n \in HeaderBlocks |->
        IF n \in DOMAIN objects THEN objects[n] ELSE stored[n]]

\* The header writes of a call (db.set of header:n, db.bulkPut).
WriteHeaders ==
    \E objects \in headerWrites :
        /\ headers' = put(headers, objects)
        /\ headerWrites' = headerWrites \ {objects}
        /\ UNCHANGED <<latestblock, maxAdded, headerOps>>

CDBNext ==
    \/ AddBlockHeader /\ UNCHANGED notCDB
    \/ AddBlockHeaders /\ UNCHANGED notCDB
    \/ AddBlockHeadersEmpty /\ UNCHANGED notCDB
    \/ WriteHeaders /\ UNCHANGED notCDB

----------------------------------------------------------------------------
(* EventWatcher for one event name.  The anchor contract has one event of  *)
(* the name in every block from 1 on; an event is named by its block.  A   *)
(* polling loop is a chain of pollEvents calls; a step of a loop is the    *)
(* code between two awaits.                                                *)

MaxEthBlock == 3
FinalityDepthOption == 1
MaxLoops == 2
MaxListeners == 2
MaxRestarts == 2

NoLoop == [pc |-> "none", to |-> 0, batch |-> {}]

EWInitVars ==
    /\ ewStarted = FALSE
    /\ watching = FALSE
    /\ listeners = 0
    /\ loops = [l \in 1 .. MaxLoops |-> NoLoop]
    /\ ethBlock = 0
    /\ lastLogged = -1
    /\ seenEvents = {}
    /\ delivered = [e \in 1 .. MaxEthBlock |-> 0]
    /\ restarts = 0
    /\ eventEnabled = "absent"
    /\ lastEmit = [kind |-> "none"]

\* reset(): watching = false, subscriptions = {}, events = {}.
reset ==
    /\ watching' = FALSE
    /\ listeners' = 0
    /\ eventEnabled' = "absent"

\* BaseService.start(): started = true, then onStart().
EWStart ==
    /\ ~ewStarted
    /\ restarts < MaxRestarts
    /\ ewStarted' = TRUE
    /\ restarts' = restarts + 1
    /\ reset
    /\ UNCHANGED <<loops, ethBlock, lastLogged, seenEvents, delivered, lastEmit>>

\* BaseService.stop(): started = false, then onStop().
EWStop ==
    /\ ewStarted
    /\ ewStarted' = FALSE
    /\ reset
    /\ UNCHANGED <<loops, ethBlock, lastLogged, seenEvents, delivered, restarts, lastEmit>>

\* subscribe(event, listener): startPolling() calls pollEvents() unless
\* watching is set; the new call has passed the test of started when it
\* reaches its first await.  events[event] is set to true only when the
\* name is not yet a key of events.
Subscribe ==
    /\ ewStarted
    /\ listeners < MaxListeners
    /\ listeners' = listeners + 1
    /\ eventEnabled' = IF eventEnabled = "absent" THEN "true" ELSE eventEnabled
    /\ watching' = TRUE
    /\ IF watching THEN UNCHANGED loops
       ELSE \E l \in 1 .. MaxLoops :
               /\ loops[l].pc \in {"none", "dead"}
               /\ \A k \in 1 .. (l - 1) : loops[k].pc \notin {"none", "dead"}
               /\ loops' = [loops EXCEPT ![l] = [NoLoop EXCEPT !.pc = "check"]]
    /\ UNCHANGED <<ewStarted, ethBlock, lastLogged, seenEvents, delivered, restarts, lastEmit>>

\* unsubscribe(event, listener) of a subscribed listener: the listener is
\* filtered out, and events[event] = false when none is left.
Unsubscribe ==
    /\ eventEnabled # "absent"
    /\ listeners > 0
    /\ listeners' = listeners - 1
    /\ eventEnabled' = IF listeners - 1 = 0 THEN "false" ELSE eventEnabled
    /\ UNCHANGED <<ewStarted, watching, loops, ethBlock, lastLogged, seenEvents,
                   delivered, restarts, lastEmit>>

\* A block is mined on the anchor chain.
EthBlockMined ==
    /\ ethBlock < MaxEthBlock
    /\ ethBlock' = ethBlock + 1
    /\ UNCHANGED <<ewStarted, watching, listeners, loops, lastLogged,
                   seenEvents, delivered, restarts, eventEnabled, lastEmit>>

\* pollEvents() after the sleep: the loop ends if the service is stopped.
Wake(l) ==
    /\ loops[l].pc = "sleep"
    /\ loops' = [loops EXCEPT ![l].pc = IF ewStarted THEN "check" ELSE "dead"]
    /\ UNCHANGED <<ewStarted, watching, listeners, ethBlock, lastLogged,
                   seenEvents, delivered, restarts, eventEnabled, lastEmit>>

\* checkEvents() that takes the current block itself for the last final
\* block.
CheckEventNoDepth(l) ==
    \E connected \in BOOLEAN :
        /\ loops[l].pc = "check"
        /\ loops' = [loops EXCEPT ![l] =
                 IF ~connected \/ eventEnabled # "true" \/ lastLogged + 1 > ethBlock
                 THEN [NoLoop EXCEPT !.pc = "sleep"]
                 ELSE [pc |-> "fetch", to |-> ethBlock,
                       batch |-> {e \in 1 .. MaxEthBlock :
                                     lastLogged + 1 <= e /\ e <= ethBlock}]]
        /\ UNCHANGED <<ewStarted, watching, listeners, ethBlock, lastLogged,
                       seenEvents, delivered, restarts, eventEnabled, lastEmit>>

\* checkEvents() and checkEvent() up to getPastEvents: connected says
\* whether eth.connected() and contract.hasAddress hold.
CheckEvent(l) ==
    \E connected \in BOOLEAN :
        /\ loops[l].pc = "check"
        /\ LET lastFinalBlock == bnMax(0, ethBlock - FinalityDepthOption)
               firstUnsyncedBlock == lastLogged + 1
           IN loops' = [loops EXCEPT ![l] =
                 IF ~connected \/ eventEnabled # "true"
                    \/ firstUnsyncedBlock > lastFinalBlock
                 THEN [NoLoop EXCEPT !.pc = "sleep"]
                 ELSE [pc |-> "fetch", to |-> lastFinalBlock,
                       batch |-> {e \in 1 .. MaxEthBlock :
                                     /\ firstUnsyncedBlock <= e
                                     /\ e <= lastFinalBlock}]]
        /\ UNCHANGED <<ewStarted, watching, listeners, ethBlock, lastLogged,
                       seenEvents, delivered, restarts, eventEnabled, lastEmit>>

\* getPastEvents has answered; getUniqueEvents keeps the events that
\* hasEvent does not know.
GetUniqueEvents(l) ==
    /\ loops[l].pc = "fetch"
    /\ loops' = [loops EXCEPT ![l].batch = loops[l].batch \ seenEvents,
                              ![l].pc = IF loops[l].batch \ seenEvents = {}
                                        THEN "setlast" ELSE "mark"]
    /\ UNCHANGED <<ewStarted, watching, listeners, ethBlock, lastLogged,
                   seenEvents, delivered, restarts, eventEnabled, lastEmit>>

\* emitEvents: syncdb.addEvents(events).
AddEvents(l) ==
    /\ loops[l].pc = "mark"
    /\ seenEvents' = seenEvents \cup loops[l].batch
    /\ loops' = [loops EXCEPT ![l].pc = "emit"]
    /\ UNCHANGED <<ewStarted, watching, listeners, ethBlock, lastLogged,
                   delivered, restarts, eventEnabled, lastEmit>>

\* The loop over the listeners in emitEvents without its try and catch:
\* the first listener that throws ends it.
callListenersNoCatch(n, throwers) ==
    {i \in 1 .. n : \A j \in 1 .. (i - 1) : j \notin throwers}

\* The loop over the listeners in emitEvents: a throw of a listener is
\* caught and logged, and the loop goes on.  The listeners that were called.
callListeners(n, throwers) == 1 .. n

\* emitEvents after addEvents: the loop over this.subscriptions[eventName],
\* which throws a TypeError when reset() has emptied subscriptions; the
\* throw leaves checkEvent and pollEvents sleeps.
EmitEvents(l) ==
    /\ loops[l].pc = "emit"
    /\ IF eventEnabled = "absent"
       THEN /\ loops' = [loops EXCEPT ![l] = [NoLoop EXCEPT !.pc = "sleep"]]
            /\ UNCHANGED <<delivered, lastEmit>>
       ELSE \E throwers \in SUBSET (1 .. listeners) :
            /\ loops' = [loops EXCEPT ![l].pc = "setlast"]
            /\ lastEmit' = [kind |-> "emitted", listeners |-> listeners,
                            throwers |-> throwers,
                            called |-> callListeners(listeners, throwers)]
            /\ delivered' = [e \in 1 .. MaxEthBlock |->
                               IF e \in loops[l].batch /\ listeners > 0
                               THEN bnMin(delivered[e] + 1, MaxLoops)
                               ELSE delivered[e]]
    /\ UNCHANGED <<ewStarted, watching, listeners, ethBlock, lastLogged,
                   seenEvents, restarts, eventEnabled>>

\* syncdb.setLastLoggedEventBlock(eventName, lastFinalBlock), then the sleep.
SetLastLogged(l) ==
    /\ loops[l].pc = "setlast"
    /\ lastLogged' = loops[l].to
    /\ loops' = [loops EXCEPT ![l] = [NoLoop EXCEPT !.pc = "sleep"]]
    /\ UNCHANGED <<ewStarted, watching, listeners, ethBlock, seenEvents,
                   delivered, restarts, eventEnabled, lastEmit>>

EWNext ==
    \/ EWStart /\ UNCHANGED notEW
    \/ EWStop /\ UNCHANGED notEW
    \/ Subscribe /\ UNCHANGED notEW
    \/ Unsubscribe /\ UNCHANGED notEW
    \/ EthBlockMined /\ UNCHANGED notEW
    \/ \E l \in 1 .. MaxLoops : Wake(l) /\ UNCHANGED notEW
    \/ \E l \in 1 .. MaxLoops : CheckEvent(l) /\ UNCHANGED notEW
    \/ \E l \in 1 .. MaxLoops : GetUniqueEvents(l) /\ UNCHANGED notEW
    \/ \E l \in 1 .. MaxLoops : AddEvents(l) /\ UNCHANGED notEW
    \/ \E l \in 1 .. MaxLoops : EmitEvents(l) /\ UNCHANGED notEW
    \/ \E l \in 1 .. MaxLoops : SetLastLogged(l) /\ UNCHANGED notEW

----------------------------------------------------------------------------
(* SyncService.checkPendingTransactions (sync-service.ts) for one wallet   *)
(* address.  Transaction t is in plasma block t; the operator returns the  *)
(* transactions of the blocks asked for.  The round reads latestblock of   *)
(* the ChainDB above.                                                      *)

MaxSyncTx == 2
MaxRounds == 3
MaxSyncRestarts == 1

SyncTxs == 1 .. MaxSyncTx

SYInitVars ==
    /\ pending = <<>>
    /\ syncFailed = <<>>
    /\ lastSynced = -1
    /\ imported = {}
    /\ round = [pc |-> "idle"]
    /\ failedOpen = {}
    /\ rounds = 0
    /\ syncRestarts = 0

\* [...new Set(list)]: the first occurrence of every element, in order.
RECURSIVE Dedupe(_, _, _)
Dedupe(list, i, acc) ==
    IF i > Len(list) THEN acc
    ELSE Dedupe(list, i + 1,
                IF \E k \in 1 .. Len(acc) : acc[k] = list[i] THEN acc
                ELSE Append(acc, list[i]))

\* operator.getReceivedTransactions(address, from, to)
RECURSIVE getReceivedTransactions(_, _)
getReceivedTransactions(from, to) ==
    IF from > to \/ from > MaxSyncTx THEN <<>>
    ELSE (IF from \in SyncTxs THEN <<from>> ELSE <<>>)
         \o getReceivedTransactions(from + 1, to)

\* checkPendingTransactions up to the loop over this.pending; online says
\* whether operator.online and contract.hasAddress hold.  The operator may
\* return the transaction of the block after the range as well (early): the
\* loop tests tx.block because of it.
RoundBegin ==
    \E online \in BOOLEAN, early \in BOOLEAN :
        /\ round.pc = "idle"
        /\ rounds < MaxRounds
        /\ rounds' = rounds + 1
        /\ LET firstUnsyncedBlock == lastSynced + 1
               currentBlock == latestblock
               prevFailed == syncFailed
           IN IF online /\ (firstUnsyncedBlock <= currentBlock
                            \/ Len(prevFailed) > 0)
              THEN /\ pending' = Dedupe(pending
                                        \o getReceivedTransactions(
                                               firstUnsyncedBlock, currentBlock)
                                        \o (IF early /\ currentBlock + 1 \in SyncTxs
                                            THEN <<currentBlock + 1>> ELSE <<>>)
                                        \o prevFailed, 1, <<>>)
                   /\ round' = [pc |-> "import", currentBlock |-> currentBlock,
                                i |-> 1, failed |-> <<>>]
              ELSE UNCHANGED <<pending, round>>
        /\ UNCHANGED <<syncFailed, lastSynced, imported, failedOpen, syncRestarts>>

\* One iteration of the loop without the test of tx.block against
\* currentBlock.
ImportTransactionNoBlockTest ==
    \E ok \in BOOLEAN :
        /\ round.pc = "import"
        /\ round.i <= Len(pending)
        /\ LET tx == pending[round.i] IN
           IF tx \in imported \/ ok
           THEN /\ round' = [round EXCEPT !.i = @ + 1]
                /\ imported' = imported \cup {tx}
                /\ failedOpen' = failedOpen \ {tx}
           ELSE /\ round' = [round EXCEPT !.i = @ + 1,
                                          !.failed = Append(@, tx)]
                /\ UNCHANGED <<imported, failedOpen>>
        /\ UNCHANGED <<pending, syncFailed, lastSynced, rounds, syncRestarts>>

\* One iteration of the loop: the transaction is skipped when its block is
\* above currentBlock; addTransaction returns at once for a transaction that
\* is stored, and otherwise imports it (ok) or throws.
ImportTransaction ==
    \E ok \in BOOLEAN :
        /\ round.pc = "import"
        /\ round.i <= Len(pending)
        /\ LET tx == pending[round.i] IN
           IF tx > round.currentBlock
           THEN /\ round' = [round EXCEPT !.i = @ + 1]
                /\ UNCHANGED <<imported, failedOpen>>
           ELSE IF tx \in imported \/ ok
           THEN /\ round' = [round EXCEPT !.i = @ + 1]
                /\ imported' = imported \cup {tx}
                /\ failedOpen' = failedOpen \ {tx}
           ELSE /\ round' = [round EXCEPT !.i = @ + 1,
                                          !.failed = Append(@, tx)]
                /\ UNCHANGED <<imported, failedOpen>>
        /\ UNCHANGED <<pending, syncFailed, lastSynced, rounds, syncRestarts>>

\* setFailedTransactions(failed), then setLastSyncedBlock(currentBlock).
RoundEnd ==
    /\ round.pc = "import"
    /\ round.i > Len(pending)
    /\ syncFailed' = round.failed
    /\ lastSynced' = round.currentBlock
    /\ failedOpen' = failedOpen \cup
                         {round.failed[k] : k \in 1 .. Len(round.failed)}
    /\ round' = [pc |-> "idle"]
    /\ UNCHANGED <<pending, imported, rounds, syncRestarts>>

\* The process is restarted between two rounds: this.pending is empty again.
SyncRestart ==
    /\ round.pc = "idle"
    /\ syncRestarts < MaxSyncRestarts
    /\ syncRestarts' = syncRestarts + 1
    /\ pending' = <<>>
    /\ UNCHANGED <<syncFailed, lastSynced, imported, round, failedOpen, rounds>>

\* onBlockSubmitted(events): chaindb.addBlockHeaders(blocks).  The contract
\* has one hash for a block.
onBlockSubmitted ==
    \E blocks \in (SUBSET HeaderBlocks) \ {{}} :
        addBlockHeaders([n \in blocks |-> "h1"])

SYNext ==
    \/ RoundBegin /\ UNCHANGED notSY
    \/ ImportTransaction /\ UNCHANGED notSY
    \/ RoundEnd /\ UNCHANGED notSY
    \/ SyncRestart /\ UNCHANGED notSY
    \/ onBlockSubmitted /\ UNCHANGED notCDB
    \/ WriteHeaders /\ UNCHANGED notCDB


----------------------------------------------------------------------------
(* The exit events from the contract to ChainDB: EventWatcher.checkEvents  *)
(* runs one checkEvent per event name, EventHandler passes the batch on,   *)
(* and SyncService.onExitStarted / onExitFinalized set the marks.  The     *)
(* exits are those of ChainExits; an event is in the block of its index.   *)

MaxLog == 4

ExitEventNames == {"BeginExitEvent", "FinalizeExitEvent"}

XEInitVars ==
    /\ contractLog = <<>>
    /\ xLastLogged = [n \in ExitEventNames |-> -1]
    /\ xCheck = [n \in ExitEventNames |-> [pc |-> "idle"]]
    /\ xHandlers = {}
    /\ dbFinalized = {}

InLog(name, exit) ==
    \E i \in 1 .. Len(contractLog) :
        contractLog[i] = [name |-> name, exit |-> exit]

\* The contract logs BeginExitEvent for an exit once, and FinalizeExitEvent
\* once for an exit that was begun.
ContractEvent ==
    \E exit \in ChainExits, name \in ExitEventNames :
        /\ Len(contractLog) < MaxLog
        /\ ~InLog(name, exit)
        /\ name = "FinalizeExitEvent" => InLog("BeginExitEvent", exit)
        /\ contractLog' = Append(contractLog, [name |-> name, exit |-> exit])
        /\ UNCHANGED <<xLastLogged, xCheck, xHandlers, dbFinalized>>

\* checkEvents: Promise.all of one checkEvent per event name, all with the
\* same lastFinalBlock.
CheckEvents ==
    /\ \A n \in ExitEventNames : xCheck[n].pc = "idle"
    /\ \E n \in ExitEventNames :
           xLastLogged[n] + 1 <= bnMax(0, Len(contractLog) - FinalityDepthOption)
    /\ xCheck' = [n \in ExitEventNames |->
                     [pc |-> "query",
                      lastFinalBlock |->
                          bnMax(0, Len(contractLog) - FinalityDepthOption)]]
    /\ UNCHANGED <<contractLog, xLastLogged, xHandlers, dbFinalized>>

\* contract.getPastEvents(eventName, {fromBlock, toBlock})
getPastEvents(name, fromBlock, toBlock) ==
    SelectSeq(SubSeq(contractLog, bnMax(1, fromBlock), toBlock),
              LAMBDA e : e.name = name)

\* checkEvent(eventName, lastFinalBlock) from the query to the end: the
\* listener is called with the batch and is not awaited.
XCheckEvent(name) ==
    /\ xCheck[name].pc = "query"
    /\ LET firstUnsyncedBlock == xLastLogged[name] + 1
           lastFinalBlock == xCheck[name].lastFinalBlock
           events == getPastEvents(name, firstUnsyncedBlock, lastFinalBlock)
       IN IF firstUnsyncedBlock > lastFinalBlock
          THEN UNCHANGED <<xLastLogged, xHandlers>>
          ELSE /\ xLastLogged' = [xLastLogged EXCEPT ![name] = lastFinalBlock]
               /\ xHandlers' =
                      IF Len(events) = 0 THEN xHandlers
                      ELSE xHandlers \cup {[name |-> name, events |-> events]}
    /\ xCheck' = [xCheck EXCEPT ![name] = [pc |-> "idle"]]
    /\ UNCHANGED <<contractLog, dbFinalized>>

markExited(range) == dbExited' = dbExited \cup {<<range.start, range.end>>}

markFinalized(exit) ==
    dbFinalized' = dbFinalized \cup {<<exit.start, exit.end>>}

\* One iteration of the loop of onExitStarted (chain.addExit begins with
\* chaindb.addExit, which marks the range exited) or of onExitFinalized
\* (markFinalized, addExitableEnd).
XHandleExit ==
    \E h \in xHandlers :
        LET exit == h.events[1].exit
            rest == Tail(h.events)
        IN /\ xHandlers' = (xHandlers \ {h}) \cup
                  (IF Len(rest) = 0 THEN {} ELSE {[h EXCEPT !.events = rest]})
           /\ IF h.name = "BeginExitEvent"
              THEN /\ markExited(exit)
                   /\ UNCHANGED <<dbFinalized, dbExitable>>
              ELSE /\ markFinalized(exit)
                   /\ dbExitable' = dbExitable \cup {exit.start}
                   /\ UNCHANGED dbExited
           /\ UNCHANGED <<contractLog, xLastLogged, xCheck>>
           /\ UNCHANGED <<dbState, dbTxs, lockHolder, inflight, procs>>

XENext ==
    \/ ContractEvent /\ UNCHANGED notXE
    \/ CheckEvents /\ UNCHANGED notXE
    \/ \E n \in ExitEventNames : XCheckEvent(n) /\ UNCHANGED notXE
    \/ XHandleExit /\ UNCHANGED notCSXE


----------------------------------------------------------------------------
(* ChainDB.addExit with EphemDBProvider.push, called by concurrent         *)
(* callers; a step is the code between two awaits.                         *)

MaxExitOps == 3

ExitInputs == {Snap(s, s + 1, 1, o) : s \in Coins, o \in Owners}

DXInitVars ==
    /\ dbExits = [o \in Owners |-> <<>>]
    /\ exitCalls = [p \in Procs |-> [pc |-> "idle"]]
    /\ exitsAdded = {}
    /\ exitOps = 0

\* addExit(exit) up to the await of markExited.
DBAddExit(p) ==
    \E exit \in ExitInputs :
        /\ exitCalls[p].pc = "idle"
        /\ exitOps < MaxExitOps
        /\ exitOps' = exitOps + 1
        /\ markExited(exit)
        /\ exitCalls' = [exitCalls EXCEPT ![p] = [pc |-> "push", exit |-> exit]]
        /\ UNCHANGED <<dbExits, exitsAdded>>

\* push(key, value) up to the await of get: current is the list read.
PushGet(p) ==
    /\ exitCalls[p].pc = "push"
    /\ exitCalls' = [exitCalls EXCEPT ![p] =
                         [pc |-> "set", exit |-> exitCalls[p].exit,
                          current |-> dbExits[exitCalls[p].exit.owner]]]
    /\ UNCHANGED <<dbExits, exitsAdded, exitOps, dbExited>>

\* current.push(value); set(key, current); addExit returns.
PushSet(p) ==
    /\ exitCalls[p].pc = "set"
    /\ dbExits' = [dbExits EXCEPT ![exitCalls[p].exit.owner] =
                      Append(exitCalls[p].current, exitCalls[p].exit)]
    /\ exitsAdded' = exitsAdded \cup {exitCalls[p].exit}
    /\ exitCalls' = [exitCalls EXCEPT ![p] = [pc |-> "idle"]]
    /\ UNCHANGED <<exitOps, dbExited>>

\* What a ChainDB.addExit call leaves alone besides dxVars and dbExited.
DXRest ==
    <<dbState, dbTxs, dbExitable, lockHolder, inflight, procs, notCSDX>>

DXNext ==
    \/ \E p \in Procs : DBAddExit(p) /\ UNCHANGED DXRest
    \/ \E p \in Procs : PushGet(p) /\ UNCHANGED DXRest
    \/ \E p \in Procs : PushSet(p) /\ UNCHANGED DXRest


----------------------------------------------------------------------------
(* The head state with tokens: deposits, exits and received transfers are  *)
(* applied to the SnapshotManager of the head state; getBalances and       *)
(* pickRanges read it.  A typed value is token * TokenSpan + value         *)
(* (TokenSpan stands for 2^96).                                            *)

MaxToken == 1

MaxBalOps == 3

Tokens == 0 .. MaxToken

TokenSpan == MaxCoin + 1

typedValue(token, value) == token * TokenSpan + value

getTokenFromTyped(typedVal) == typedVal \div TokenSpan

getValueFromTyped(typedVal) == typedVal % TokenSpan

\* Snapshot.fromDeposit: new Snapshot({...deposit, recipient, sender}); the
\* constructor reads start, end, block and owner.
fromDeposit(deposit) ==
    Snap(deposit.start, deposit.end, deposit.block, deposit.owner)

\* Snapshot.fromExit: new Snapshot({...exit, recipient, sender}).
fromExit(exit) == Snap(exit.start, exit.end, exit.block, exit.owner)

\* Snapshot.fromTransfer: typedStart, typedEnd, recipient, block.
fromTransfer(transfer) ==
    Snap(typedValue(transfer.token, transfer.start),
         typedValue(transfer.token, transfer.end), transfer.block,
         transfer.recipient)

\* Range.fromSnapshot / UntypedSnapshot.fromSnapshot
fromSnapshot(snapshot) ==
    [token |-> getTokenFromTyped(snapshot.start),
     start |-> getValueFromTyped(snapshot.start),
     end |-> getValueFromTyped(snapshot.end),
     owner |-> snapshot.owner]

OwnerRank(owner) == IF owner = "A" THEN 0 ELSE 1

\* ranges.sort of mergeRanges: by owner, then by start; stable.
RECURSIVE InsertByOwnerStart(_, _)
InsertByOwnerStart(sorted, r) ==
    IF sorted = <<>> THEN <<r>>
    ELSE
        LET last == sorted[Len(sorted)] IN
        IF (IF last.owner # r.owner
            THEN OwnerRank(last.owner) < OwnerRank(r.owner)
            ELSE last.start <= r.start)
        THEN Append(sorted, r)
        ELSE Append(InsertByOwnerStart(SubSeq(sorted, 1, Len(sorted) - 1), r),
                    last)

RECURSIVE SortOwnerStartFrom(_, _, _)
SortOwnerStartFrom(rs, i, acc) ==
    IF i > Len(rs) THEN acc
    ELSE SortOwnerStartFrom(rs, i + 1, InsertByOwnerStart(acc, rs[i]))

orderRanges(rangeA, rangeB) ==
    IF rangeA.owner # rangeB.owner \/ rangeA.end < rangeB.start
    THEN <<rangeA, rangeB>>
    ELSE IF rangeA.start = rangeB.end
    THEN <<[rangeB EXCEPT !.end = rangeA.end]>>
    ELSE IF rangeA.end = rangeB.start
    THEN <<[rangeB EXCEPT !.start = rangeA.start]>>
    ELSE <<rangeB, rangeA>>

\* ranges.reduce of mergeRanges
RECURSIVE ReduceRanges(_, _, _)
ReduceRanges(sorted, i, merged) ==
    IF i > Len(sorted) THEN merged
    ELSE ReduceRanges(sorted, i + 1,
             IF merged = <<>> THEN <<sorted[i]>>
             ELSE SubSeq(merged, 1, Len(merged) - 1)
                  \o orderRanges(merged[Len(merged)], sorted[i]))

mergeRanges(rs) == ReduceRanges(SortOwnerStartFrom(rs, 1, <<>>), 1, <<>>)

\* SnapshotManager.ranges
SnapshotRanges(snaps) ==
    mergeRanges([i \in 1 .. Len(snaps) |-> fromSnapshot(snaps[i])])

getOwnedRanges(snaps, address) ==
    SelectSeq(SnapshotRanges(snaps), LAMBDA range : range.owner = address)


RECURSIVE SumSizes(_, _)
SumSizes(rs, i) ==
    IF i > Len(rs) THEN 0 ELSE (rs[i].end - rs[i].start) + SumSizes(rs, i + 1)

\* ChainService.getBalances: per token, the sum of the sizes of the owned
\* ranges; a token without a range has no entry, here 0.
getBalances(snaps, address) ==
    [token \in Tokens |->
        SumSizes(SelectSeq(getOwnedRanges(snaps, address),
                           LAMBDA range : range.token = token), 1)]

\* available.sort of pickElements: by size, largest first; stable.
RECURSIVE InsertBySizeDesc(_, _)
InsertBySizeDesc(sorted, r) ==
    IF sorted = <<>> THEN <<r>>
    ELSE
        LET last == sorted[Len(sorted)] IN
        IF last.end - last.start >= r.end - r.start THEN Append(sorted, r)
        ELSE Append(InsertBySizeDesc(SubSeq(sorted, 1, Len(sorted) - 1), r),
                    last)

RECURSIVE SortSizeDescFrom(_, _, _)
SortSizeDescFrom(rs, i, acc) ==
    IF i > Len(rs) THEN acc
    ELSE SortSizeDescFrom(rs, i + 1, InsertBySizeDesc(acc, rs[i]))

\* picked.sort of pickElements: by token, then by start; stable.
RECURSIVE InsertByTokenStart(_, _)
InsertByTokenStart(sorted, r) ==
    IF sorted = <<>> THEN <<r>>
    ELSE
        LET last == sorted[Len(sorted)] IN
        IF (IF last.token # r.token THEN last.token < r.token
            ELSE last.start <= r.start)
        THEN Append(sorted, r)
        ELSE Append(InsertByTokenStart(SubSeq(sorted, 1, Len(sorted) - 1), r),
                    last)

RECURSIVE SortTokenStartFrom(_, _, _)
SortTokenStartFrom(rs, i, acc) ==
    IF i > Len(rs) THEN acc
    ELSE SortTokenStartFrom(rs, i + 1, InsertByTokenStart(acc, rs[i]))

\* The while loop of pickElements.
RECURSIVE PickLoop(_, _, _)
PickLoop(available, amount, picked) ==
    IF ~(amount > 0) THEN [threw |-> FALSE, picked |-> picked]
    ELSE IF available = <<>> THEN [threw |-> TRUE, picked |-> <<>>]
    ELSE
        LET smallest == available[Len(available)]
            rest == SubSeq(available, 1, Len(available) - 1)
            smallestAmount == smallest.end - smallest.start
        IN IF smallestAmount <= amount
           THEN PickLoop(rest, amount - smallestAmount, Append(picked, smallest))
           ELSE [threw |-> FALSE,
                 picked |-> Append(picked,
                     [smallest EXCEPT !.end = smallest.start + amount])]

pickElements(arr, token, amount) ==
    LET available ==
            SortSizeDescFrom(SelectSeq(arr, LAMBDA item : item.token = token),
                             1, <<>>)
        r == PickLoop(available, amount, <<>>)
    IN [threw |-> r.threw, picked |-> SortTokenStartFrom(r.picked, 1, <<>>)]

pickRanges(snaps, address, token, amount) ==
    pickElements(getOwnedRanges(snaps, address), token, amount)

\* Deposits and exits carry token and untyped start and end; a received
\* transfer is one of a verified transaction of block 1.
BalInputs(block) ==
    {[token |-> t, start |-> s, end |-> e, block |-> block, owner |-> o,
      recipient |-> o] :
        t \in Tokens, s \in 0 .. MaxCoin - 1, e \in 1 .. MaxCoin - 1, o \in Owners}

BalInitVars ==
    /\ head = <<>>
    /\ balLast = [kind |-> "none"]
    /\ balOps = 0

\* ChainService.addDeposits for one deposit that is not exited.
BalAddDeposit ==
    \E deposit \in BalInputs(0) :
        /\ balOps < MaxBalOps
        /\ LET r == TryAddSnapshot(head, fromDeposit(deposit)) IN
            /\ head' = r.snaps
            /\ balLast' = [kind |-> "deposit", arg |-> deposit, threw |-> r.threw]
        /\ balOps' = balOps + 1

\* ChainService.addExit: applyExit on the head state.
BalAddExit ==
    \E exit \in BalInputs(1) :
        /\ balOps < MaxBalOps
        /\ LET r == TryAddSnapshot(head, fromExit(exit)) IN
            /\ head' = r.snaps
            /\ balLast' = [kind |-> "exit", arg |-> exit, threw |-> r.threw]
        /\ balOps' = balOps + 1

\* ChainService.addTransaction: merge of a verified post-state that holds
\* the snapshot of one transfer.
BalAddTransaction ==
    \E transfer \in BalInputs(1) :
        /\ balOps < MaxBalOps
        /\ valid(fromTransfer(transfer))
        /\ head' = MergeManagers(head, <<fromTransfer(transfer)>>, 1)
        /\ balLast' = [kind |-> "transaction", arg |-> transfer, threw |-> FALSE]
        /\ balOps' = balOps + 1

BalGetBalances ==
    \E address \in Owners :
        /\ balLast' = [kind |-> "balances", address |-> address,
                       result |-> getBalances(head, address)]
        /\ UNCHANGED <<head, balOps>>

BalPickRanges ==
    \E address \in Owners, token \in Tokens, amount \in 0 .. MaxCoin :
        /\ balLast' = [kind |-> "pick", address |-> address, token |-> token,
                       amount |-> amount,
                       result |-> pickRanges(head, address, token, amount)]
        /\ UNCHANGED <<head, balOps>>

BalNext ==
    \/ BalAddDeposit /\ UNCHANGED notBAL
    \/ BalAddExit /\ UNCHANGED notBAL
    \/ BalAddTransaction /\ UNCHANGED notBAL
    \/ BalGetBalances /\ UNCHANGED notBAL
    \/ BalPickRanges /\ UNCHANGED notBAL


----------------------------------------------------------------------------
(* applyProof applied a second time to the same tx and proof objects.  The *)
(* first call has set implicitStart and implicitEnd on the newState of     *)
(* every transaction of the proof, unless it threw before that loop.       *)

PAInitVars == proofResult2 = [error |-> "idle", state |-> <<>>]

ProofAfterCallNoDeposits(proof) == [proof EXCEPT !.deposits = <<>>]

\* The proof object after applyProof(tx, proof).
ProofAfterCall(proof) ==
    IF \/ \E i \in 1 .. Len(proof.deposits) : ~depositValid(proof, i)
       \/ FirstInclusionError(proof, 1) # "none"
    THEN proof
    ELSE [proof EXCEPT !.transactions =
             [i \in 1 .. Len(proof.transactions) |->
                 [proof.transactions[i] EXCEPT
                     !.newState = setImplicitBounds(proof.transactions[i])]]]

\* The tx object after the call: it is the last transaction of the proof
\* or an object of its own.
TxAfterCall(tx, proof) ==
    IF Len(proof.transactions) > 0 /\ tx = proof.transactions[Len(proof.transactions)]
    THEN ProofAfterCall(proof).transactions[Len(proof.transactions)]
    ELSE tx

\* SnapshotManager.equals(snapshots): every element of snapshots equals the
\* element of this.snapshots at its index (a missing one throws).
ManagerEquals(mine, other) ==
    \A i \in 1 .. Len(other) :
        i <= Len(mine) /\ StateObjectEquals(mine[i], other[i])

ApplyProofAgain ==
    /\ proofCalls > 0
    /\ proofResult2.error = "idle"
    /\ proofResult2' = applyProof(TxAfterCall(proofTx, proofArg),
                                  ProofAfterCall(proofArg))
    /\ UNCHANGED notPA

PANext ==
    \/ ApplyProof
    \/ ApplyProofAgain


----------------------------------------------------------------------------
(* PlasmaApp: the registry of services, startService, stopService, start  *)
(* and stop.  A service is a name with its declared dependencies and its  *)
(* started flag.  toposort is the npm package of that name: it orders the *)
(* nodes that occur in the edges so that a comes before b for every edge  *)
(* [a, b], and throws on a cyclic graph.                                  *)

ServiceNames == {"A", "B", "C"}

AppInitVars ==
    /\ appServices = {}
    /\ dependencies = [n \in ServiceNames |-> {}]
    /\ appStarted = {}
    /\ appPc = "setup"
    /\ appQueue = <<>>
    /\ appStartOrder = <<>>
    /\ appStopOrder = <<>>
    /\ appError = "none"
    /\ appCall = [name |-> "none", deps |-> {}, started |-> {},
                  ran |-> FALSE, error |-> "none", threw |-> FALSE]

Reverse(s) == [i \in 1 .. Len(s) |-> s[Len(s) + 1 - i]]

\* The edges [service.name, dependency] of the registered services.
dependencyGraph == {<<s, d>> : s \in appServices, d \in ServiceNames} \cap
                   {e \in ServiceNames \X ServiceNames : e[2] \in dependencies[e[1]]}

uniqueNodes(edges) == {e[1] : e \in edges} \cup {e[2] : e \in edges}

RECURSIVE TransitiveClosure(_)
TransitiveClosure(edges) ==
    LET more == edges \cup {<<q[1][1], q[2][2]>> :
                              q \in {p \in edges \X edges : p[1][2] = p[2][1]}}
    IN  IF more = edges THEN edges ELSE TransitiveClosure(more)

isCyclicNever(edges) == FALSE

\* toposort throws 'Cyclic dependency' when a node reaches itself.
isCyclic(edges) == \E n \in uniqueNodes(edges) : <<n, n>> \in TransitiveClosure(edges)

\* An order of the nodes in which a comes before b for every edge [a, b].
RECURSIVE TopoOrder(_, _)
TopoOrder(nodes, edges) ==
    IF nodes = {} THEN <<>>
    ELSE LET free == {n \in nodes : \A m \in nodes : <<m, n>> \notin edges}
             n == IF free # {} THEN CHOOSE x \in free : TRUE
                  ELSE CHOOSE x \in nodes : TRUE
         IN  <<n>> \o TopoOrder(nodes \ {n}, edges)

toposort(edges) == TopoOrder(uniqueNodes(edges), edges)

getOrderedServices == Reverse(toposort(dependencyGraph))

stopOrderUnreversed == getOrderedServices

\* stop(): getOrderedServices().reverse()
stopOrder == Reverse(getOrderedServices)

\* The errors startService(name) can throw before it calls service.start();
\* the dependencies are visited in the order of the declared array, which
\* is any order here.  The services proxy throws for a name that is not
\* registered, before the test of dep === undefined is reached.
StartErrors(name) ==
    IF name \notin appServices THEN {"ServiceDoesNotExist"}
    ELSE LET failing == {d \in dependencies[name] :
                             d \notin appServices \/ d \notin appStarted}
         IN  IF failing = {} THEN {"none"}
             ELSE {IF d \notin appServices THEN "ServiceDoesNotExist"
                   ELSE "DependencyNotStarted" : d \in failing}

\* The services whose onStart throws.
FailingServices == {"C"}

\* startService: service.start() sets started before onStart runs, and an
\* error of onStart is logged and swallowed.
startService(name, err) ==
    /\ err \in StartErrors(name)
    /\ appCall' = [name |-> name,
                   deps |-> IF name \in appServices THEN dependencies[name] ELSE {},
                   started |-> appStarted,
                   ran |-> err = "none", error |-> err,
                   threw |-> err = "none" /\ name \in FailingServices]
    /\ appStarted' = IF err = "none" THEN appStarted \cup {name} ELSE appStarted

RegisterService(name, deps) ==
    /\ appPc = "setup"
    /\ name \notin appServices
    /\ appServices' = appServices \cup {name}
    /\ dependencies' = [dependencies EXCEPT ![name] = deps]
    /\ UNCHANGED <<appStarted, appPc, appQueue, appStartOrder, appStopOrder,
                   appError, appCall>>

\* startService called on its own, before start().
StartServiceCall(name) ==
    /\ appPc = "setup"
    /\ \E err \in StartErrors(name) : startService(name, err)
    /\ UNCHANGED <<appServices, dependencies, appPc, appQueue, appStartOrder,
                   appStopOrder, appError>>

\* start(), up to the first startService.
AppStart ==
    /\ appPc = "setup"
    /\ IF isCyclic(dependencyGraph)
       THEN /\ appPc' = "failed"
            /\ appError' = "DependencyCycle"
            /\ appQueue' = <<>>
       ELSE /\ appQueue' = getOrderedServices
            /\ appPc' = IF getOrderedServices = <<>> THEN "running" ELSE "starting"
            /\ appError' = appError
    /\ UNCHANGED <<appServices, dependencies, appStarted, appStartOrder,
                   appStopOrder, appCall>>

\* start(): one turn of the loop, await this.startService(service).
AppStartStep ==
    /\ appPc = "starting"
    /\ \E err \in StartErrors(Head(appQueue)) :
          /\ startService(Head(appQueue), err)
          /\ IF err = "none"
             THEN /\ appStartOrder' = Append(appStartOrder, Head(appQueue))
                  /\ appQueue' = Tail(appQueue)
                  /\ appPc' = IF Tail(appQueue) = <<>> THEN "running" ELSE "starting"
                  /\ appError' = appError
             ELSE /\ appStartOrder' = appStartOrder
                  /\ appQueue' = <<>>
                  /\ appPc' = "failed"
                  /\ appError' = err
    /\ UNCHANGED <<appServices, dependencies, appStopOrder>>

\* stop(), up to the first stopService.
AppStop ==
    /\ appPc = "running"
    /\ appQueue' = stopOrder
    /\ appPc' = IF stopOrder = <<>> THEN "stopped" ELSE "stopping"
    /\ UNCHANGED <<appServices, dependencies, appStarted, appStartOrder,
                   appStopOrder, appError, appCall>>

\* stop(): one turn of the loop, await this.stopService(service); an error
\* of service.stop() is logged and swallowed, started is false before onStop.
AppStopStep ==
    /\ appPc = "stopping"
    /\ IF Head(appQueue) \notin appServices
       THEN /\ appPc' = "failed"
            /\ appError' = "ServiceDoesNotExist"
            /\ appQueue' = <<>>
            /\ UNCHANGED <<appStarted, appStopOrder>>
       ELSE /\ appStarted' = appStarted \ {Head(appQueue)}
            /\ appStopOrder' = Append(appStopOrder, Head(appQueue))
            /\ appQueue' = Tail(appQueue)
            /\ appPc' = IF Tail(appQueue) = <<>> THEN "stopped" ELSE "stopping"
            /\ appError' = appError
    /\ UNCHANGED <<appServices, dependencies, appStartOrder, appCall>>

AppNext ==
    \/ \E name \in ServiceNames, deps \in SUBSET ServiceNames :
          RegisterService(name, deps) /\ UNCHANGED notAPP
    \/ \E name \in ServiceNames : StartServiceCall(name) /\ UNCHANGED notAPP
    \/ AppStart /\ UNCHANGED notAPP
    \/ AppStartStep /\ UNCHANGED notAPP
    \/ AppStop /\ UNCHANGED notAPP
    \/ AppStopStep /\ UNCHANGED notAPP


----------------------------------------------------------------------------
(* BaseService.services, the accessor a service uses to reach another     *)
(* service, and JSONRPCService with its subdispatchers.  The registry and *)
(* the started flags are those of PlasmaApp.                              *)

RpcInitVars ==
    /\ svcRead = [name |-> "none", started |-> FALSE, outcome |-> "none"]
    /\ rpcLast = [kind |-> "none"]

servicesUnchecked(name) ==
    IF name \notin appServices THEN "ServiceDoesNotExist" ELSE "ok"

\* BaseService.services[name]: the proxy reads app.services[name], which
\* throws for a name that is not registered, and then tests started.
services(name) ==
    IF name \notin appServices THEN "ServiceDoesNotExist"
    ELSE IF name \notin appStarted THEN "ServiceNotStarted"
    ELSE "ok"

ReadService(name) ==
    /\ svcRead' = [name |-> name, started |-> name \in appStarted,
                   outcome |-> services(name)]
    /\ UNCHANGED rpcLast

JSONRPC_ERRORS ==
    [PARSE_ERROR |-> -32700, INVALID_REQUEST |-> -32600,
     METHOD_NOT_FOUND |-> -32601, INVALID_PARAMS |-> -32602,
     INTERNAL_ERROR |-> -32603]

\* One subdispatcher per backing service: its methods getter reads the
\* service through app.services and binds the callables of the service.
Subdispatchers ==
    {[service |-> "A", prefix |-> "pg_", methods |-> {"getA"}],
     [service |-> "B", prefix |-> "pg_", methods |-> {"getB"}]}

\* prefix + method
PrefixedName(prefix, method) ==
    IF prefix = "pg_" /\ method = "getA" THEN "pg_getA"
    ELSE IF prefix = "pg_" /\ method = "getB" THEN "pg_getB"
    ELSE method

\* The names every object inherits from Object.prototype; `name in methods`
\* is true for them.
InheritedNames == {"toString"}

MethodNames == {"pg_getA", "pg_getB", "pg_none"} \cup InheritedNames

\* getAllMethods: the union of the prefixed methods of the subdispatchers;
\* it throws when a methods getter reads a service that is not registered.
getAllMethodsThrows == \E sub \in Subdispatchers : sub.service \notin appServices

getAllMethods ==
    UNION {{PrefixedName(sub.prefix, method) : method \in sub.methods} :
             sub \in Subdispatchers}

\* getMethod(name) returns a method (TRUE) or throws 'Method not found.'
getMethod(name) ==
    /\ ~getAllMethodsThrows
    /\ name \in getAllMethods \cup InheritedNames

\* The service whose callable a method name is bound to.
BackingService(name) ==
    IF \E sub \in Subdispatchers : \E method \in sub.methods :
           PrefixedName(sub.prefix, method) = name
    THEN (CHOOSE sub \in Subdispatchers : \E method \in sub.methods :
              PrefixedName(sub.prefix, method) = name).service
    ELSE "none"

\* The id null of a response is modelled as 0; request ids are positive.
buildError(type, id) == [error |-> type, code |-> JSONRPC_ERRORS[type], id |-> id]

RpcRequests ==
    [hasMethod : BOOLEAN, hasId : BOOLEAN, method : MethodNames, id : {1}]

\* handleRawRequest(request); callable is what the invoked function does
\* (Object.prototype.toString returns).
HandleRawRequest(request, callable) ==
    /\ request.method \in InheritedNames => callable = "returns"
    /\ rpcLast' =
         IF ~(request.hasMethod /\ request.hasId)
         THEN [kind |-> "request", request |-> request, started |-> appStarted,
               callable |-> callable,
               assembled |-> IF getAllMethodsThrows THEN {} ELSE getAllMethods,
               invoked |-> {}, response |-> buildError("INVALID_REQUEST", 0)]
         ELSE IF ~getMethod(request.method)
         THEN [kind |-> "request", request |-> request, started |-> appStarted,
               callable |-> callable,
               assembled |-> IF getAllMethodsThrows THEN {} ELSE getAllMethods,
               invoked |-> {},
               response |-> buildError("METHOD_NOT_FOUND", request.id)]
         ELSE [kind |-> "request", request |-> request, started |-> appStarted,
               callable |-> callable,
               assembled |-> getAllMethods,
               invoked |-> {request.method},
               response |-> IF callable = "throws"
                            THEN buildError("INTERNAL_ERROR", request.id)
                            ELSE [result |-> request.method, id |-> request.id]]
    /\ UNCHANGED svcRead

RpcNext ==
    \/ \E name \in ServiceNames : RegisterService(name, {}) /\ UNCHANGED notAPP
    \/ \E name \in ServiceNames : StartServiceCall(name) /\ UNCHANGED notAPP
    \/ \E name \in ServiceNames : ReadService(name) /\ UNCHANGED notRPC
    \/ \E request \in RpcRequests, callable \in {"returns", "throws"} :
          HandleRawRequest(request, callable) /\ UNCHANGED notRPC


----------------------------------------------------------------------------
(* SyncService as a listener of the eventHandler: onStart attaches the    *)
(* handlers, the eventHandler emits event:Deposit, event:BlockSubmitted   *)
(* and event:ExitStarted batches.                                         *)

MaxHandlerSets == 2
MaxBatch == 2

SHInitVars ==
    /\ syncStarted = FALSE
    /\ syncHandlers = 0
    /\ emitLast = [event |-> "none"]

DepositEvents ==
    {[owner |-> o, token |-> 0, start |-> 0, end |-> 1, block |-> 0] : o \in {"A", "B"}}

BlockSubmittedEvents == {[number |-> n, hash |-> n] : n \in {1, 2}}

ExitStartedEvents ==
    {[owner |-> o, id |-> 0, token |-> 0, start |-> 0, end |-> 1, block |-> 1] :
        o \in {"A", "B"}}

Batches(events) == UNION {[1 .. n -> events] : n \in 0 .. MaxBatch}

toDeposit(event) ==
    [kind |-> "Deposit", owner |-> event.owner, token |-> event.token,
     start |-> event.start, end |-> event.end, block |-> event.block]

toBlock(event) == [kind |-> "Block", number |-> event.number, hash |-> event.hash]

toExit(event) ==
    [kind |-> "Exit", owner |-> event.owner, id |-> event.id, token |-> event.token,
     start |-> event.start, end |-> event.end, block |-> event.block]

\* The calls one set of handlers makes for a batch.
onDeposit(events) ==
    <<[fn |-> "addDeposits",
       arg |-> [i \in 1 .. Len(events) |-> toDeposit(events[i])]]>>

onBlockSubmittedCalls(events) ==
    <<[fn |-> "addBlockHeaders",
       arg |-> [i \in 1 .. Len(events) |-> toBlock(events[i])]]>>

onExitStarted(events) ==
    [i \in 1 .. Len(events) |-> [fn |-> "addExit", arg |-> toExit(events[i])]]

HandlerCalls(event, batch) ==
    IF event = "Deposit" THEN onDeposit(batch)
    ELSE IF event = "BlockSubmitted" THEN onBlockSubmittedCalls(batch)
    ELSE onExitStarted(batch)

RECURSIVE Repeat(_, _)
Repeat(s, n) == IF n = 0 THEN <<>> ELSE s \o Repeat(s, n - 1)

\* BaseService.start: started = true, then onStart, which attaches one more
\* set of handlers.
SyncStart ==
    /\ syncHandlers < MaxHandlerSets
    /\ syncStarted' = TRUE
    /\ syncHandlers' = syncHandlers + 1
    /\ UNCHANGED emitLast

\* BaseService.stop: started = false; SyncService has no onStop.
SyncStop ==
    /\ syncStarted
    /\ syncStarted' = FALSE
    /\ UNCHANGED <<syncHandlers, emitLast>>

\* EventHandler.onStop: this.removeAllListeners().
EventHandlerStop ==
    /\ syncHandlers > 0
    /\ syncHandlers' = 0
    /\ UNCHANGED <<syncStarted, emitLast>>

\* emit(`event:${name}`, batch): every attached listener is called.
EmitContractEvent(event, batch) ==
    /\ emitLast' = [event |-> event, batch |-> batch, started |-> syncStarted,
                    calls |-> Repeat(HandlerCalls(event, batch), syncHandlers)]
    /\ UNCHANGED <<syncStarted, syncHandlers>>

SHNext ==
    \/ SyncStart /\ UNCHANGED notSH
    \/ SyncStop /\ UNCHANGED notSH
    \/ EventHandlerStop /\ UNCHANGED notSH
    \/ \E batch \in Batches(DepositEvents) :
          EmitContractEvent("Deposit", batch) /\ UNCHANGED notSH
    \/ \E batch \in Batches(BlockSubmittedEvents) :
          EmitContractEvent("BlockSubmitted", batch) /\ UNCHANGED notSH
    \/ \E batch \in Batches(ExitStartedEvents) :
          EmitContractEvent("ExitStarted", batch) /\ UNCHANGED notSH


----------------------------------------------------------------------------
(* StateManager on its own: addStateObject for deposits, applyStateObject *)
(* for the newState of a transaction, with or without implicit bounds.    *)

MaxStOps == 3

STInitVars ==
    /\ stState = <<>>
    /\ stLast = [kind |-> "none"]
    /\ stOps = 0

StAddStateObject ==
    \E deposit \in DepositInputs :
        /\ stOps < MaxStOps
        /\ stState' = addStateObject(stState, deposit)
        /\ stLast' = [kind |-> "added", before |-> stState, object |-> deposit]
        /\ stOps' = stOps + 1

StApplyStateObject ==
    \E transaction \in ProofTransactions, bounded \in BOOLEAN :
        LET stateObject == IF bounded THEN setImplicitBounds(transaction)
                           ELSE transaction.newState
        IN  /\ stOps < MaxStOps
            /\ stState' = applyStateObject(stState, stateObject)
            /\ stLast' = [kind |-> "applied", before |-> stState,
                          object |-> stateObject]
            /\ stOps' = stOps + 1

STNext ==
    \/ StAddStateObject /\ UNCHANGED notST
    \/ StApplyStateObject /\ UNCHANGED notST


----------------------------------------------------------------------------
(* Exitable ends (chain-db.ts, ephem-provider.ts).  The key of an entry is *)
(* the typed value of token and end in fixed-width hex, so that the order  *)
(* of the keys as strings is the order of the typed values as numbers; a   *)
(* key is written here as its typed value.                                 *)

MaxGeOps == 4

GEInitVars ==
    /\ exitableDb = {}
    /\ geLast = [kind |-> "none"]
    /\ geOps = 0

\* addExitableEnd(token, end): the key is the typed value, the value is end.
addExitableEnd(db, token, end) ==
    {o \in db : o.key # typedValue(token, end)}
        \cup {[key |-> typedValue(token, end), value |-> end]}

\* findNextKey(key): the first of the sorted keys of the prefix with k > key;
\* throws when there is none.
findNextKey(db, key) ==
    LET after == {o.key : o \in {x \in db : x.key > key}}
    IN  IF after = {} THEN [threw |-> TRUE, key |-> -1]
        ELSE [threw |-> FALSE,
              key |-> CHOOSE k \in after : \A j \in after : k <= j]

\* getExitableEnd(token, end): the value under the key that findNextKey
\* returns for the typed value of (token, end).
getExitableEnd(db, token, end) ==
    LET nextKey == findNextKey(db, typedValue(token, end))
    IN  IF nextKey.threw THEN [threw |-> TRUE, end |-> -1]
        ELSE [threw |-> FALSE,
              end |-> (CHOOSE o \in db : o.key = nextKey.key).value]

AddExitableEnd ==
    \E token \in Tokens, end \in 0 .. MaxCoin :
        /\ geOps < MaxGeOps
        /\ exitableDb' = addExitableEnd(exitableDb, token, end)
        /\ geOps' = geOps + 1
        /\ UNCHANGED geLast

GetExitableEnd ==
    \E token \in Tokens, end \in 0 .. MaxCoin :
        /\ geOps < MaxGeOps
        /\ geLast' = [kind |-> "got", token |-> token, end |-> end,
                      recorded |-> exitableDb,
                      result |-> getExitableEnd(exitableDb, token, end)]
        /\ geOps' = geOps + 1
        /\ UNCHANGED exitableDb

GENext ==
    \/ AddExitableEnd /\ UNCHANGED notGE
    \/ GetExitableEnd /\ UNCHANGED notGE

----------------------------------------------------------------------------
(* Specifications.                                                         *)

InitAll ==
    /\ RSInitVars /\ SMInitVars /\ PRInitVars /\ CSInitVars /\ CDBInitVars
    /\ EWInitVars /\ SYInitVars /\ XEInitVars /\ DXInitVars /\ BalInitVars /\ PAInitVars /\ AppInitVars /\ RpcInitVars /\ SHInitVars /\ STInitVars /\ GEInitVars

SpecRangeStore == InitAll /\ [][RSNext]_vars

SpecSnapshots == InitAll /\ [][SMNext]_vars

SpecProof == InitAll /\ [][PRNext]_vars

SpecChain == InitAll /\ [][CSNext]_vars

SpecChainDB == InitAll /\ [][CDBNext]_vars

SpecEvents == InitAll /\ [][EWNext]_vars

SpecSync == InitAll /\ [][SYNext]_vars

SpecExitEvents == InitAll /\ [][XENext]_vars

SpecExits == InitAll /\ [][DXNext]_vars

SpecBalances == InitAll /\ [][BalNext]_vars

SpecProofTwice == InitAll /\ [][PANext]_vars

SpecApp == InitAll /\ [][AppNext]_vars

SpecRpc == InitAll /\ [][RpcNext]_vars

SpecSyncHandlers == InitAll /\ [][SHNext]_vars

SpecStateManager == InitAll /\ [][STNext]_vars

SpecExitable == InitAll /\ [][GENext]_vars

----------------------------------------------------------------------------
\* C1: after every sequence of addRange calls from an empty RangeStore, no
\* two entries of the store have overlapping [start, end) intervals.
C1_NoOverlap == NoOverlap(ranges)

C1_Witness ==
    /\ Len(ranges) >= 3
    /\ rsLast.kind = "added"
    /\ rsLast.higher

\* C2: for every coin c, the entry covering c (if any) has a block number
\* greater than or equal to every block previously applied at c.
C2_LaterBlockWins ==
    \A c \in Coins : \A i \in 1 .. Len(ranges) :
        (ranges[i].start <= c /\ c < ranges[i].end)
            => ranges[i].block >= applied[c]

C2_Witness ==
    /\ rsLast.kind = "added"
    /\ rsLast.lower
    /\ \E c \in Coins : \E i \in 1 .. Len(ranges) :
          /\ ranges[i].start <= c /\ c < ranges[i].end
          /\ ranges[i].block > 0
          /\ ranges[i].block = applied[c]

\* C3: after every public SnapshotManager operation, the head snapshot list
\* contains no two overlapping ranges.
C3_NoOverlap == NoOverlap(snapshots)

----------------------------------------------------------------------------
\* C7: whenever applyProof(tx, proof) returns, the state it returns holds an
\* object equal to tx.newState on start, end, block, predicate and state;
\* and when the deposits and the inclusion proofs were accepted and the call
\* does not return, the error it throws is 'Invalid state transition'.
ContainsStateObject(rs, o) ==
    \E i \in 1 .. Len(rs) : StateObjectEquals(rs[i], o)

C7_TargetConfirmed ==
    proofCalls > 0 =>
        /\ proofResult.error = "none" =>
               ContainsStateObject(proofResult.state, proofTx.newState)
        /\ proofResult.error \notin
               {"none", "Invalid deposit", "Invalid transaction",
                "Received transaction for non-existent block"} =>
               proofResult.error = "Invalid state transition"

----------------------------------------------------------------------------
\* The head state a call makes of the head state s it loads.
Mutation(p, s) ==
    IF procs[p].kind = "deposits"
    THEN ApplyDeposits(s, procs[p].deposits, 1).snaps
    ELSE IF procs[p].kind = "exit"
    THEN TryAddSnapshot(s, procs[p].exit).snaps
    ELSE MergeManagers(s, procs[p].temp, 1)

RECURSIVE InOrder(_, _, _)
InOrder(order, i, s) ==
    IF i > Len(order) THEN s
    ELSE InOrder(order, i + 1, Mutation(order[i], s))

\* The head states that the calls of P leave when they run one after another
\* from the empty head state.
LinearHistories(P) ==
    {InOrder(order, 1, <<>>) :
        order \in {f \in [1 .. Cardinality(P) -> P] :
                      \A i, j \in 1 .. Cardinality(P) : i # j => f[i] # f[j]}}

Quiescent ==
    /\ inflight = {}
    /\ \A p \in Procs : procs[p].pc = "done"

\* C4: when concurrent addTransaction calls have all completed, the persisted
\* head state is the one that the calls leave in one of the orders in which
\* they can run one after another: it holds every merged post-state.
C4_LinearHistory ==
    (Quiescent /\ \A p \in Procs : procs[p].kind = "tx" /\ procs[p].outcome = "ok")
        => dbState \in LinearHistories(Procs)

\* C5: a call of addDeposits, addExit or addTransaction that has failed has
\* started no write of state:latest, and a call that has returned has its
\* complete mutation of the head state in the database.
C5_AllOrNothing ==
    \A p \in Procs :
        procs[p].pc = "done" =>
            IF procs[p].outcome = "ok"
            THEN procs[p].wrote /\ procs[p].value \notin inflight
            ELSE ~procs[p].wrote

\* C6: an addTransaction call whose proof holds a deposit that depositValid
\* rejects has failed with 'Invalid deposit' before it took the lock: it has
\* started no write of the head state and has not stored the transaction.
C6_InvalidDeposit ==
    \A p \in Procs :
        (/\ procs[p].kind = "tx"
         /\ procs[p].proof.fault.kind = "deposit"
         /\ procs[p].proof.fault.at <= Len(procs[p].proof.deposits))
        => /\ procs[p].pc = "done"
           /\ procs[p].outcome = "Invalid deposit"
           /\ ~procs[p].wrote
           /\ ~procs[p].recorded

C6_Witness ==
    \E p \in Procs :
        /\ procs[p].kind = "tx"
        /\ procs[p].proof.fault = [kind |-> "deposit", at |-> MaxProofDeposits]
        /\ Len(procs[p].proof.deposits) = MaxProofDeposits
        /\ procs[p].outcome = "Invalid deposit"
        /\ \E q \in Procs : procs[q].kind = "tx" /\ procs[q].outcome = "ok"

----------------------------------------------------------------------------
\* C10: latestblock is the greatest block number passed to addBlockHeader or
\* addBlockHeaders so far (and so never decreases), whatever the order in
\* which the blocks arrive.
C10_LatestIsMax == latestblock = maxAdded

----------------------------------------------------------------------------
\* C8: an event retrieved for the subscribed name is delivered to the
\* listeners exactly once: never in two batches, and once hasEvent knows it
\* and no loop is about to emit it, it has been delivered.
C8_ExactlyOnce ==
    \A e \in 1 .. MaxEthBlock :
        /\ delivered[e] <= 1
        /\ (/\ e \in seenEvents
            /\ \A l \in 1 .. MaxLoops :
                   ~(loops[l].pc = "emit" /\ e \in loops[l].batch))
           => delivered[e] = 1

----------------------------------------------------------------------------
\* C9: a transaction whose import failed in a finished round and that has
\* not been imported since is in the persisted list sync:failed: every
\* later round attempts it again and keeps it in the list if it fails again.
C9_FailedKept ==
    \A tx \in failedOpen : \E k \in 1 .. Len(syncFailed) : syncFailed[k] = tx

\* C11: a range that is marked finalized is marked exited: the mark
\* finalized:{token}:{start}:{end} is never set before the mark
\* exited:{token}:{start}:{end} of the same range.
C11_ExitedBeforeFinalized == dbFinalized \subseteq dbExited

\* C12: every exit added by a ChainDB.addExit call that has returned is in
\* the list exits:{owner} of its owner, whatever the interleaving of the
\* calls: no append is lost and no exit is removed from the list.
C12_ExitsKept ==
    \A exit \in exitsAdded :
        \E i \in 1 .. Len(dbExits[exit.owner]) : dbExits[exit.owner][i] = exit

\* The coins of token `token` that the head state gives to `address`.
OwnedCoins(address, token) ==
    {c \in 0 .. MaxCoin :
        \E i \in 1 .. Len(head) :
            /\ head[i].owner = address
            /\ head[i].start <= typedValue(token, c)
            /\ typedValue(token, c) < head[i].end}

\* C13: after addExit(e) has been applied, no range that getBalances counts
\* for e.owner holds a coin of [e.start, e.end) of token e.token.
C13_ExitedNotCounted ==
    (balLast.kind = "exit" /\ ~balLast.threw) =>
        LET e == balLast.arg
            owned == getOwnedRanges(head, e.owner)
        IN \A i \in 1 .. Len(owned) :
               ~(/\ owned[i].token = e.token
                 /\ owned[i].start < e.end
                 /\ e.start < owned[i].end)

\* C14: getBalances(address) gives for every token the number of coins of
\* that token that the head state gives to address; coins of different
\* tokens are never added into one balance.
C14_BalancePerToken ==
    balLast.kind = "balances" =>
        \A token \in Tokens :
            balLast.result[token] =
                Cardinality(OwnedCoins(balLast.address, token))

\* C15: pickRanges(address, token, amount) fails when address owns fewer
\* than amount coins of the token; otherwise it returns ranges of the token
\* that lie within the coins owned by address, are pairwise disjoint and
\* have sizes that sum to amount (no range for amount 0).
C15_PickedRanges ==
    balLast.kind = "pick" =>
        LET owned == OwnedCoins(balLast.address, balLast.token)
            picked == balLast.result.picked
        IN IF Cardinality(owned) < balLast.amount
           THEN balLast.result.threw
           ELSE /\ ~balLast.result.threw
                /\ SumSizes(picked, 1) = balLast.amount
                /\ balLast.amount = 0 => picked = <<>>
                /\ \A i \in 1 .. Len(picked) :
                       /\ picked[i].owner = balLast.address
                       /\ picked[i].token = balLast.token
                       /\ picked[i].start < picked[i].end
                       /\ \A c \in picked[i].start .. picked[i].end - 1 :
                              c \in owned
                /\ \A i, j \in 1 .. Len(picked) :
                       i < j => \/ picked[i].end <= picked[j].start
                                \/ picked[j].end <= picked[i].start

----------------------------------------------------------------------------
(* C17: start() starts each service only after all of its declared        *)
(* dependencies have been started, and stop() stops the services in       *)
(* exactly the reverse of the start order.                                *)
C17_StartStopOrder ==
    /\ \A i \in 1 .. Len(appStartOrder) :
          dependencies[appStartOrder[i]] \subseteq
              {appStartOrder[j] : j \in 1 .. (i - 1)}
    /\ \A k \in 1 .. Len(appStopOrder) :
          /\ k <= Len(appStartOrder)
          /\ appStopOrder[k] = appStartOrder[Len(appStartOrder) + 1 - k]
    /\ appPc = "stopped" => Len(appStopOrder) = Len(appStartOrder)

C17_Witness ==
    /\ appPc = "stopped"
    /\ dependencies = [n \in ServiceNames |->
                          IF n = "A" THEN {} ELSE IF n = "B" THEN {"A"} ELSE {"A", "B"}]
    /\ appStartOrder = <<"A", "B", "C">>
    /\ appStopOrder = <<"C", "B", "A">>

(* C18: startService fails with DependencyNotStarted, without running the *)
(* start of the service, whenever one of its declared dependencies is not *)
(* started at the moment of the call.                                     *)
C18_DependencyNotStarted ==
    ~(appCall.deps \subseteq appCall.started)
        => (appCall.error = "DependencyNotStarted" /\ ~appCall.ran)

(* C19: if the declared dependencies contain a cycle, start() fails with  *)
(* DependencyCycle and has started no service.                            *)
C19_Cycle ==
    (/\ appPc # "setup"
     /\ \E n \in appServices : <<n, n>> \in TransitiveClosure(dependencyGraph))
        => (appPc = "failed" /\ appError = "DependencyCycle" /\ appStartOrder = <<>>)

C19_Witness ==
    /\ appPc = "failed"
    /\ appError = "DependencyCycle"
    /\ dependencies["A"] = {"B"}
    /\ dependencies["B"] = {"A"}

(* C20: after start() has completed, every registered service is started, *)
(* also one without dependencies that no other service depends on.        *)
C20_AllStarted ==
    appPc = "running" => appServices \subseteq appStarted

----------------------------------------------------------------------------
(* C21: reading another service through the services accessor of a        *)
(* service fails whenever the started flag of that service is false and   *)
(* returns the service only when the flag is true.                        *)
C21_ReadStartedOnly ==
    svcRead.name # "none" =>
        /\ ~svcRead.started => svcRead.outcome # "ok"
        /\ svcRead.outcome = "ok" => svcRead.started

C21_Witness ==
    /\ svcRead.name \in appServices
    /\ ~svcRead.started
    /\ svcRead.outcome = "ServiceNotStarted"

(* C22: dispatching a method whose backing service is not started never   *)
(* invokes the callable of that service; the request is answered with     *)
(* InternalError.                                                         *)
C22_NotStartedNotInvoked ==
    (/\ rpcLast.kind = "request"
     /\ rpcLast.request.hasMethod /\ rpcLast.request.hasId
     /\ rpcLast.request.method \in rpcLast.assembled
     /\ BackingService(rpcLast.request.method) \notin rpcLast.started)
        => /\ rpcLast.invoked = {}
           /\ "error" \in DOMAIN rpcLast.response
           /\ rpcLast.response.code = -32603

(* C23: handleRawRequest answers InvalidRequest (-32600, id null) when    *)
(* method or id is missing; MethodNotFound (-32601) without invoking a    *)
(* callable when the method is not in the assembled map; InternalError    *)
(* (-32603) when the callable throws; otherwise the result of the         *)
(* callable with the id of the request.                                   *)
C23_OneOutcome ==
    rpcLast.kind = "request" =>
        LET request == rpcLast.request
            response == rpcLast.response
            isError == "error" \in DOMAIN response
        IN  IF ~(request.hasMethod /\ request.hasId)
            THEN isError /\ response.code = -32600 /\ response.id = 0
                    /\ rpcLast.invoked = {}
            ELSE IF request.method \notin rpcLast.assembled
            THEN isError /\ response.code = -32601 /\ response.id = request.id
                    /\ rpcLast.invoked = {}
            ELSE IF rpcLast.callable = "throws"
            THEN isError /\ response.code = -32603 /\ response.id = request.id
            ELSE ~isError /\ response.result = request.method
                    /\ response.id = request.id

----------------------------------------------------------------------------
(* C24: once SyncService is started, each event:Deposit batch causes      *)
(* chain.addDeposits to be called with exactly the converted deposits,    *)
(* each event:BlockSubmitted batch causes chaindb.addBlockHeaders to be   *)
(* called with exactly the converted blocks, and each event:ExitStarted   *)
(* batch causes chain.addExit to be called once per converted exit.       *)
C24_HandlersReact ==
    (emitLast.event # "none" /\ emitLast.started) =>
        LET batch == emitLast.batch
        IN  emitLast.calls =
              IF emitLast.event = "Deposit"
              THEN <<[fn |-> "addDeposits",
                      arg |-> [i \in 1 .. Len(batch) |->
                                 [kind |-> "Deposit", owner |-> batch[i].owner,
                                  token |-> batch[i].token, start |-> batch[i].start,
                                  end |-> batch[i].end, block |-> batch[i].block]]]>>
              ELSE IF emitLast.event = "BlockSubmitted"
              THEN <<[fn |-> "addBlockHeaders",
                      arg |-> [i \in 1 .. Len(batch) |->
                                 [kind |-> "Block", number |-> batch[i].number,
                                  hash |-> batch[i].hash]]]>>
              ELSE [i \in 1 .. Len(batch) |->
                      [fn |-> "addExit",
                       arg |-> [kind |-> "Exit", owner |-> batch[i].owner,
                                id |-> batch[i].id, token |-> batch[i].token,
                                start |-> batch[i].start, end |-> batch[i].end,
                                block |-> batch[i].block]]]

----------------------------------------------------------------------------
(* C25: when addRange(r) overlaps an existing entry e with                *)
(* e.block = r.block, the new range does not supersede: e is left intact  *)
(* and only the slices of r outside e are inserted.                       *)
C25_TieKeepsExisting ==
    rsLast.kind = "added" =>
        \A i \in 1 .. Len(rsLast.before) :
            LET e == rsLast.before[i] IN
            (Overlapping(e, rsLast.range) /\ e.block = rsLast.range.block)
                => \E j \in 1 .. Len(ranges) : ranges[j] = e

(* C29: for a range r strictly contained in an existing entry e,          *)
(* addRange(r) yields the left remainder of e, r and the right remainder  *)
(* of e, the remainders keeping the block and data of e, when             *)
(* r.block > e.block, and leaves the store unchanged when                 *)
(* r.block < e.block.                                                     *)
C29_StrictlyContained ==
    rsLast.kind = "added" =>
        \A i \in 1 .. Len(rsLast.before) :
            LET e == rsLast.before[i]
                r == rsLast.range
                before == rsLast.before
            IN  (e.start < r.start /\ r.end < e.end) =>
                  /\ r.block > e.block =>
                        ranges = SubSeq(before, 1, i - 1)
                                 \o <<[e EXCEPT !.end = r.start], r,
                                      [e EXCEPT !.start = r.end]>>
                                 \o SubSeq(before, i + 1, Len(before))
                  /\ r.block < e.block => ranges = before

C29_Witness ==
    /\ rsLast.kind = "added"
    /\ Len(ranges) = 3
    /\ \E i \in 1 .. Len(rsLast.before) :
          /\ rsLast.before[i].start < rsLast.range.start
          /\ rsLast.range.end < rsLast.before[i].end
          /\ rsLast.range.block > rsLast.before[i].block
          /\ rsLast.range.predicate # rsLast.before[i].predicate

----------------------------------------------------------------------------
(* C26: if the predicate evaluator returns false for an old state         *)
(* overlapped by the newState of any transaction of the proof, applyProof *)
(* fails with 'Invalid state transition' and returns no post-state.       *)
RECURSIVE EvaluatorRejects(_, _, _)
EvaluatorRejects(rs, transactions, i) ==
    IF i > Len(transactions) THEN FALSE
    ELSE
        LET newState == setImplicitBounds(transactions[i])
            check == CheckOldStates(getOldStates(rs, newState), 1, newState,
                                    transactions[i].witness)
        IN  IF check = "TypeError" THEN FALSE
            ELSE IF check = "invalid" THEN TRUE
            ELSE EvaluatorRejects(applyStateObject(rs, newState), transactions, i + 1)

C26_RejectedTransition ==
    (/\ proofCalls > 0
     /\ \A i \in 1 .. Len(proofArg.deposits) : depositValid(proofArg, i)
     /\ FirstInclusionError(proofArg, 1) = "none"
     /\ EvaluatorRejects(AddDeposits(<<>>, proofArg.deposits, 1),
                         proofArg.transactions, 1))
        => proofResult.error = "Invalid state transition"

----------------------------------------------------------------------------
(* C27: when a transition is applied, an implicit component only advances *)
(* by one the block of the entries fully inside it whose block is         *)
(* component.block - 1; it never overwrites the predicate or the state    *)
(* (owner) of an entry in the implicit range.                             *)
Covering(rs, c) == SelectSeq(rs, LAMBDA e : e.start <= c /\ c < e.end)

InImplicitRange(o, c) ==
    /\ o.implicitStart # Undefined
    /\ o.implicitEnd # Undefined
    /\ \/ o.implicitStart <= c /\ c < o.start
       \/ o.end <= c /\ c < o.implicitEnd

C27_ImplicitKeepsData ==
    stLast.kind = "applied" =>
        \A c \in 0 .. MaxCoin :
            InImplicitRange(stLast.object, c) =>
                /\ Len(Covering(stState, c)) = Len(Covering(stLast.before, c))
                /\ \A i \in 1 .. Len(Covering(stLast.before, c)) :
                      LET old == Covering(stLast.before, c)[i]
                          new == Covering(stState, c)[i]
                      IN  /\ new.predicate = old.predicate
                          /\ new.state = old.state
                          /\ new.block \in {old.block, old.block + 1}
                          /\ new.block = old.block + 1
                                => old.block = stLast.object.block - 1

(* C28: a StateObject with implicit bounds decomposes into a left         *)
(* implicit component [implicitStart, start) if non-empty, a right        *)
(* implicit component [end, implicitEnd) if non-empty, and the explicit   *)
(* component [start, end); without implicit bounds the only component is  *)
(* the object itself, non-implicit.                                       *)
C28_Components ==
    stLast.kind = "applied" =>
        LET o == stLast.object
            comps == components(o)
            parts == {<<comps[i].start, comps[i].end, comps[i].implicit>> :
                         i \in 1 .. Len(comps)}
        IN  IF o.implicitStart = Undefined \/ o.implicitEnd = Undefined
            THEN comps = <<o>> /\ ~o.implicit
            ELSE /\ parts =
                      (IF o.implicitStart < o.start
                       THEN {<<o.implicitStart, o.start, TRUE>>} ELSE {})
                      \cup (IF o.end < o.implicitEnd
                            THEN {<<o.end, o.implicitEnd, TRUE>>} ELSE {})
                      \cup {<<o.start, o.end, FALSE>>}
                 /\ Len(comps) = Cardinality(parts)

\* C30: whenever addTransaction has stored its transaction (hasTransaction
\* is true for it), the persisted head state already holds the post-state of
\* the transaction: every coin of tx.newState is held in state:latest by a
\* snapshot of the block of the transaction or of a later block.
C30_StateBeforeTransaction ==
    \A p \in Procs :
        (procs[p].kind = "tx" /\ procs[p].recorded /\ procs[p].tx \in dbTxs) =>
            \A c \in procs[p].tx.newState.start .. procs[p].tx.newState.end - 1 :
                \E i \in 1 .. Len(dbState) :
                    /\ dbState[i].start <= c /\ c < dbState[i].end
                    /\ dbState[i].block >= procs[p].tx.newState.block

\* C31: at any time at most one EventWatcher polling loop is at work: no two
\* loops are between their test of started and their sleep at the same time,
\* however often the service has been stopped and started.
C31_OneLoop ==
    Cardinality({l \in 1 .. MaxLoops :
                    loops[l].pc \in {"check", "fetch", "mark", "emit", "setlast"}}) <= 1

\* C32: the event name is polled exactly when it has a listener: after the
\* last listener has been unsubscribed checkEvent skips the name, and once a
\* listener is subscribed again checkEvent queries for it again.
C32_PolledIffSubscribed ==
    /\ listeners = 0 => eventEnabled # "true"
    /\ listeners > 0 => eventEnabled = "true"

\* C33: a check of the event name that queries the contract queries exactly
\* the blocks from lastLoggedEventBlock + 1 to finalHead, where finalHead is
\* max(0, head - finalityDepth), and only when that interval is not empty;
\* no event of a block above finalHead is ever delivered.
C33_FinalBlocksOnly ==
    [][LET finalHead == IF ethBlock > FinalityDepthOption
                        THEN ethBlock - FinalityDepthOption ELSE 0
       IN  /\ \A l \in 1 .. MaxLoops :
                (loops[l].pc = "check" /\ loops'[l].pc = "fetch") =>
                    /\ lastLogged + 1 <= finalHead
                    /\ loops'[l].to = finalHead
                    /\ loops'[l].batch =
                          {e \in 1 .. MaxEthBlock :
                              lastLogged + 1 <= e /\ e <= finalHead}
           /\ \A e \in 1 .. MaxEthBlock :
                delivered'[e] > delivered[e] => e <= finalHead]_vars

C33_Witness ==
    \E l \in 1 .. MaxLoops :
        /\ loops[l].pc = "setlast"
        /\ loops[l].batch # {}
        /\ loops[l].to < ethBlock
        /\ \A e \in loops[l].batch : delivered[e] > 0

\* C34: when emitEvents delivers a batch, every listener of the event name
\* is called with it, whichever listeners throw: a throw of one listener
\* does not keep the batch from the listeners after it.
C34_ListenersIsolated ==
    lastEmit.kind = "emitted" =>
        \A i \in 1 .. lastEmit.listeners : i \in lastEmit.called

C34_Witness ==
    /\ lastEmit.kind = "emitted"
    /\ lastEmit.listeners = MaxListeners
    /\ 1 \in lastEmit.throwers
    /\ MaxListeners \in lastEmit.called

\* C35: a deposit whose range was marked exited when addDeposits was called
\* is not applied to the head state and its end is not recorded as an
\* exitable end: the call applies and records exactly the other deposits of
\* its argument.
NotExitedAtCall(p) ==
    SelectSeq(procs[p].input,
              LAMBDA d : <<d.start, d.end>> \notin procs[p].exitedAtCall)

C35_ExitedDepositSkipped ==
    [][\A p \in Procs :
          (procs[p].kind = "deposits" /\ procs'[p].kind = "deposits") =>
              /\ (procs[p].pc = "load" /\ procs'[p].pc = "save") =>
                     procs'[p].value =
                        ApplyDeposits(dbState, NotExitedAtCall(p), 1).snaps
              /\ (procs[p].pc = "ends" /\ procs'[p].pc = "done") =>
                     dbExitable' = dbExitable \cup
                        {NotExitedAtCall(p)[i].end :
                            i \in 1 .. Len(NotExitedAtCall(p))}]_vars

C35_Witness ==
    \E p \in Procs :
        /\ procs[p].kind = "deposits"
        /\ procs[p].pc = "done"
        /\ procs[p].outcome = "ok"
        /\ Len(procs[p].input) = 2
        /\ Len(NotExitedAtCall(p)) = 1
        /\ \E i \in 1 .. 2 : procs[p].input[i].end \notin dbExitable

\* C36: a block header is immutable once stored: when header:n holds a root
\* hash, no later addBlockHeader or addBlockHeaders call changes it.
C36_HeaderImmutable ==
    [][\A n \in HeaderBlocks :
          headers[n] # "null" => headers'[n] = headers[n]]_vars

\* C37: a service counts as started only if its onStart has completed: when
\* the onStart of the service that startService has just started threw, the
\* started flag of that service is false, and no service that depends on a
\* service whose onStart throws is started.
C37_StartedOnlyAfterOnStart ==
    /\ appCall.threw => appCall.name \notin appStarted
    /\ \A n \in appStarted : dependencies[n] \cap FailingServices = {}

\* C38 as stated: a pending transaction that a round has skipped because its
\* block is above the current local block, and that is not imported, is in
\* the persisted queue sync:failed when the round has ended.
C38_SkippedPersisted ==
    [][(round.pc = "import" /\ round'.pc = "idle") =>
          \A k \in 1 .. Len(pending) :
              (pending[k] > round.currentBlock /\ pending[k] \notin imported) =>
                  \E j \in 1 .. Len(syncFailed') : syncFailed'[j] = pending[k]]_vars

\* C38 as amended: a round imports no transaction whose block is above its
\* current local block, and a skipped transaction is not lost although it is
\* not put in the persisted queue: between two rounds every transaction is
\* imported, or in sync:failed, or in a block above the last synced block,
\* so that a later round asks the operator for it again, also after a
\* restart has emptied the pending list.
C38_SkippedNotLost ==
    [][/\ \A tx \in imported' \ imported : tx <= round.currentBlock
       /\ round'.pc = "idle" =>
             \A tx \in SyncTxs :
                \/ tx \in imported'
                \/ \E j \in 1 .. Len(syncFailed') : syncFailed'[j] = tx
                \/ tx > lastSynced']_vars

C38_Witness ==
    /\ round.pc = "import"
    /\ syncRestarts > 0
    /\ \E k \in 1 .. Len(pending) :
          /\ k < round.i
          /\ pending[k] > round.currentBlock
          /\ pending[k] \notin imported
          /\ \A j \in 1 .. Len(round.failed) : round.failed[j] # pending[k]

\* C39: however often SyncService has been stopped and started, a batch of
\* a domain event makes its handler run exactly once while the service is
\* started, and makes no handler run while the service is stopped.
C39_HandlerOncePerBatch ==
    emitLast.event # "none" =>
        emitLast.calls = IF emitLast.started
                         THEN HandlerCalls(emitLast.event, emitLast.batch)
                         ELSE <<>>

\* C40: getExitableEnd(token, end) returns the smallest exitable end
\* recorded for the token that is greater than or equal to end (end itself
\* when end is recorded), and never an end recorded for another token: when
\* the token has no such end the call returns none.
C40_ExitableEnd ==
    geLast.kind = "got" =>
        LET ends == {o.value : o \in
                       {x \in geLast.recorded :
                           /\ x.key = geLast.token * TokenSpan + x.value
                           /\ x.value >= geLast.end}}
        IN  IF ends = {} THEN geLast.result.threw
            ELSE /\ ~geLast.result.threw
                 /\ geLast.result.end \in ends
                 /\ \A e \in ends : geLast.result.end <= e

====
